---- MODULE Spec2Model ----
(***************************************************************************)
(* Fixed-size frontier swarm: the per-agent state machine of               *)
(* backend/NodeClass.py (class Node), the swarm placed by                  *)
(* backend/spawner.py and the datagram channel between the agents.         *)
(* A cell is a pair <<row, col>> with 0-based coordinates as in the code.  *)
(***************************************************************************)
EXTENDS Integers, Sequences, FiniteSets, TLC

\* ------------------------------------------------------------------ input
\* Mazes handed to spawn_agents and to every tick (0 = open, 1 = wall), each
\* with the start_position of its swarm.
Corridor == << <<0, 0, 0, 0>> >>

Branch == << <<0, 0, 0>>,
             <<0, 1, 1>> >>

DeadEnd == << <<0, 0>>,
              <<0, 1>>,
              <<0, 1>> >>

Scenarios == { [grid |-> Corridor, start |-> <<0, 0>>],
               [grid |-> Branch,   start |-> <<0, 0>>] }

\* The runs of the simulation driver.
SimScenarios == Scenarios \cup { [grid |-> DeadEnd, start |-> <<0, 0>>] }

\* agent_id of the spawned nodes
Agents == {1, 2}

\* Calls of Node.tick the driver makes in one run, over all agents.
MaxTicks == 5

\* Rounds of the simulation driver (its max_ticks).
MaxRounds == 6

\* sentinel of _get_bfs_distance
Unreachable == 999999

\* stuck_counter threshold of _move_toward_target
StuckLimit == 5

\* top_3 of _select_best_frontier
TopK == 3

None == <<>>

VARIABLES local_map, frontiers, target_frontier, claimed_frontiers,
          current_position, stuck_counter,
          maze,        \* the grid of the run
          net,         \* net[p]: the datagrams addressed to node p so far
          tick_count,  \* calls of Node.tick so far
          last,        \* the latest step; of a tick: the agent, its state
                       \* before the call and the states between the phases
          round,       \* simulation driver: the round (its loop variable tick)
          turn,        \* simulation driver: agents that have ticked this round
          messages,    \* simulation driver: the payloads captured this round
          round_claims,\* <<a, f>>: a announced a claim on f in this round
          prev_claims, \* the same of the round before
          goal_cell,   \* exploration drivers: the goal cell
          goal_reached,\* exploration drivers: their flag goal_reached
          pc,          \* exploration drivers: where the driver stands
          received     \* live simulation: received[a] is the datagram the
                       \* pending recvfrom of a's listener has returned

node_vars == <<local_map, frontiers, target_frontier, claimed_frontiers,
               current_position, stuck_counter>>

drv_vars == <<goal_cell, goal_reached, pc, received>>

sim_vars == <<round, turn, messages, round_claims, prev_claims,
              goal_cell, goal_reached, pc, received>>

vars == <<local_map, frontiers, target_frontier, claimed_frontiers,
          current_position, stuck_counter, maze, net, tick_count, last,
          round, turn, messages, round_claims, prev_claims,
          goal_cell, goal_reached, pc, received>>

\* ---------------------------------------------------------------- helpers
Range(s) == {s[i] : i \in 1..Len(s)}

MinOf(x, y) == IF x < y THEN x ELSE y

\* for dx, dy in [(-1, 0), (1, 0), (0, -1), (0, 1)]
directions == << <<-1, 0>>, <<1, 0>>, <<0, -1>>, <<0, 1>> >>

Plus(c, d) == <<c[1] + d[1], c[2] + d[2]>>

\* rows, cols = len(local_grid_view), len(local_grid_view[0])
GridRows(view) == Len(view)
GridCols(view) == Len(view[1])

\* 0 <= nx < rows and 0 <= ny < cols
InBounds(view, c) ==
    /\ 0 <= c[1] /\ c[1] < GridRows(view)
    /\ 0 <= c[2] /\ c[2] < GridCols(view)

\* local_grid_view[nx][ny]
CellAt(view, c) == view[c[1] + 1][c[2] + 1]

_is_wall(cell_value) == cell_value = 1

\* dict[key] = value
DictSet(d, k, v) == [x \in (DOMAIN d) \cup {k} |-> IF x = k THEN v ELSE d[x]]

\* ------------------------------------------------------------ path engine
\* The neighbours one BFS iteration appends, in the order of directions.
\* Faulty variant: the search walks over cells that are not mapped.
Expand_any_cell(keys, goal, current, visited) ==
    LET nb == [i \in 1..Len(directions) |-> Plus(current, directions[i])]
    IN  SelectSeq(nb, LAMBDA n : n \notin visited)

Expand(keys, goal, current, visited) ==
    LET nb == [i \in 1..Len(directions) |-> Plus(current, directions[i])]
    IN  SelectSeq(nb, LAMBDA n : n \notin visited /\ (n \in keys \/ n = goal))

RECURSIVE BfsDistanceLoop(_, _, _, _)
BfsDistanceLoop(keys, pos2, queue, visited) ==
    IF queue = <<>> THEN Unreachable
    ELSE LET current  == Head(queue)[1]
             distance == Head(queue)[2]
         IN  IF current = pos2 THEN distance
             ELSE LET new == Expand(keys, pos2, current, visited)
                  IN  BfsDistanceLoop(keys, pos2,
                         Tail(queue) \o [i \in 1..Len(new) |-> <<new[i], distance + 1>>],
                         visited \cup Range(new))

_get_bfs_distance(keys, pos1, pos2) ==
    IF pos1 = pos2 THEN 0
    ELSE BfsDistanceLoop(keys, pos2, << <<pos1, 0>> >>, {pos1})

\* Faulty variant: the end of the path is returned, not its first hop.
RECURSIVE BfsStepLoop_end(_, _, _, _)
BfsStepLoop_end(keys, target, queue, visited) ==
    IF queue = <<>> THEN None
    ELSE LET current == Head(queue)[1]
             path    == Head(queue)[2]
         IN  IF current = target
             THEN (IF Len(path) > 1 THEN path[Len(path)] ELSE None)
             ELSE LET new == Expand(keys, target, current, visited)
                  IN  BfsStepLoop_end(keys, target,
                         Tail(queue) \o [i \in 1..Len(new) |-> <<new[i], Append(path, new[i])>>],
                         visited \cup Range(new))

RECURSIVE BfsStepLoop(_, _, _, _)
BfsStepLoop(keys, target, queue, visited) ==
    IF queue = <<>> THEN None
    ELSE LET current == Head(queue)[1]
             path    == Head(queue)[2]
         IN  IF current = target
             THEN (IF Len(path) > 1 THEN path[2] ELSE None)
             ELSE LET new == Expand(keys, target, current, visited)
                  IN  BfsStepLoop(keys, target,
                         Tail(queue) \o [i \in 1..Len(new) |-> <<new[i], Append(path, new[i])>>],
                         visited \cup Range(new))

\* Faulty variant: the step is the target itself, however far it is.
_find_next_step_bfs_leap(keys, pos, target) ==
    IF target = pos THEN None ELSE target

_find_next_step_bfs(keys, pos, target) ==
    IF target = pos THEN None
    ELSE BfsStepLoop(keys, target, << <<pos, <<pos>> >> >>, {pos})

\* ------------------------------------------------------ frontier selection
\* sorted(unclaimed, key=distance): Python's sort is stable.
SortedByDistance(keys, pos, s) ==
    LET d(i) == _get_bfs_distance(keys, pos, s[i])
        rank(i) == Cardinality({j \in 1..Len(s) :
                        d(j) < d(i) \/ (d(j) = d(i) /\ j < i)})
    IN  [k \in 1..Len(s) |-> s[CHOOSE i \in 1..Len(s) : rank(i) = k - 1]]

\* Faulty variant: any unclaimed frontier, whatever its distance.
_select_best_frontier_unranked(keys, fr, claimed, pos) ==
    IF fr = <<>> THEN {None}
    ELSE LET unclaimed == SelectSeq(fr, LAMBDA f : f \notin DOMAIN claimed)
         IN  IF unclaimed # <<>> THEN Range(unclaimed) ELSE Range(fr)

\* Faulty variant: nothing is selected when every frontier is claimed.
_select_best_frontier_no_fallback(keys, fr, claimed, pos) ==
    IF fr = <<>> THEN {None}
    ELSE LET unclaimed == SelectSeq(fr, LAMBDA f : f \notin DOMAIN claimed)
         IN  IF unclaimed # <<>>
             THEN LET sorted_unclaimed == SortedByDistance(keys, pos, unclaimed)
                      top_3 == SubSeq(sorted_unclaimed, 1,
                                      MinOf(TopK, Len(sorted_unclaimed)))
                  IN  Range(top_3)
             ELSE {None}

\* The values random.choice can return in _select_best_frontier.
_select_best_frontier(keys, fr, claimed, pos) ==
    IF fr = <<>> THEN {None}
    ELSE LET unclaimed == SelectSeq(fr, LAMBDA f : f \notin DOMAIN claimed)
         IN  IF unclaimed # <<>>
             THEN LET sorted_unclaimed == SortedByDistance(keys, pos, unclaimed)
                      top_3 == SubSeq(sorted_unclaimed, 1,
                                      MinOf(TopK, Len(sorted_unclaimed)))
                  IN  Range(top_3)
             ELSE Range(fr)

\* --------------------------------------------------- local map and frontiers
\* The for-loop body of _scan_neighbors for one direction: the new frontier
\* it appends, if any.
\* Faulty variant: walls are not skipped.
RECURSIVE ScanLoop_through_walls(_, _, _, _, _, _)
ScanLoop_through_walls(view, lm, pos, i, fr, new_frontiers) ==
    IF i > Len(directions) THEN [frontiers |-> fr, new_frontiers |-> new_frontiers]
    ELSE LET n == Plus(pos, directions[i])
         IN  IF ~InBounds(view, n)
             THEN ScanLoop_through_walls(view, lm, pos, i + 1, fr, new_frontiers)
             ELSE IF n \notin DOMAIN lm /\ n \notin Range(fr)
                  THEN ScanLoop_through_walls(view, lm, pos, i + 1,
                                              Append(fr, n), Append(new_frontiers, n))
                  ELSE ScanLoop_through_walls(view, lm, pos, i + 1, fr, new_frontiers)

RECURSIVE ScanLoop(_, _, _, _, _, _)
ScanLoop(view, lm, pos, i, fr, new_frontiers) ==
    IF i > Len(directions) THEN [frontiers |-> fr, new_frontiers |-> new_frontiers]
    ELSE LET n == Plus(pos, directions[i])
         IN  IF ~InBounds(view, n) THEN ScanLoop(view, lm, pos, i + 1, fr, new_frontiers)
             ELSE IF _is_wall(CellAt(view, n)) THEN ScanLoop(view, lm, pos, i + 1, fr, new_frontiers)
             ELSE IF n \notin DOMAIN lm /\ n \notin Range(fr)
                  THEN ScanLoop(view, lm, pos, i + 1, Append(fr, n), Append(new_frontiers, n))
                  ELSE ScanLoop(view, lm, pos, i + 1, fr, new_frontiers)

\* Faulty variant: the scan does not consult the Local Map.
_scan_neighbors_ignore_map(view, lm, fr, pos) ==
    LET lm1 == IF pos \notin DOMAIN lm THEN DictSet(lm, pos, {}) ELSE lm
        r   == ScanLoop(view, <<>>, pos, 1, fr, <<>>)
    IN  [local_map |-> lm1, frontiers |-> r.frontiers, new_frontiers |-> r.new_frontiers]

_scan_neighbors(view, lm, fr, pos) ==
    LET lm1 == IF pos \notin DOMAIN lm THEN DictSet(lm, pos, {}) ELSE lm
        r   == ScanLoop(view, lm1, pos, 1, fr, <<>>)
    IN  [local_map |-> lm1, frontiers |-> r.frontiers, new_frontiers |-> r.new_frontiers]

\* --------------------------------------------------- coordination protocol
\* The payloads _broadcast_map_update hands to send_json (one per peer).
_broadcast_map_update(a, new_nodes, new_frontiers) ==
    IF new_nodes = {} /\ new_frontiers = <<>> THEN <<>>
    ELSE << [type |-> "MERGE", sender_id |-> a,
             nodes |-> new_nodes, frontiers |-> new_frontiers] >>

_broadcast_frontier_claim(a, frontier) ==
    << [type |-> "CLAIM", sender_id |-> a, target_frontier |-> frontier] >>

\* Faulty variant: every listed frontier is appended.
RECURSIVE MergeFrontiers_append(_, _, _)
MergeFrontiers_append(fr, listed, i) ==
    IF i > Len(listed) THEN fr
    ELSE MergeFrontiers_append(Append(fr, listed[i]), listed, i + 1)

RECURSIVE MergeFrontiers(_, _, _)
MergeFrontiers(fr, listed, i) ==
    IF i > Len(listed) THEN fr
    ELSE IF listed[i] \notin Range(fr)
         THEN MergeFrontiers(Append(fr, listed[i]), listed, i + 1)
         ELSE MergeFrontiers(fr, listed, i + 1)

\* Faulty variant: the merge keeps only the listed cells.
_process_merge_packet_replace(lm, fr, payload) ==
    [local_map |-> [c \in payload.nodes |-> IF c \in DOMAIN lm THEN lm[c] ELSE {}],
     frontiers |-> MergeFrontiers(fr, payload.frontiers, 1)]

_process_merge_packet(lm, fr, payload) ==
    [local_map |-> [c \in (DOMAIN lm) \cup payload.nodes |->
                        IF c \in DOMAIN lm THEN lm[c] ELSE {}],
     frontiers |-> MergeFrontiers(fr, payload.frontiers, 1)]

\* Faulty variant: the higher identifier wins.
_process_claim_packet_higher_wins(claimed, payload) ==
    LET sender_id == payload.sender_id
        frontier  == payload.target_frontier
    IN  IF frontier # None
        THEN IF frontier \notin DOMAIN claimed
             THEN DictSet(claimed, frontier, sender_id)
             ELSE IF sender_id > claimed[frontier]
                  THEN DictSet(claimed, frontier, sender_id)
                  ELSE claimed
        ELSE claimed

\* Faulty variant: the latest announcement wins.
_process_claim_packet_last_wins(claimed, payload) ==
    LET sender_id == payload.sender_id
        frontier  == payload.target_frontier
    IN  IF frontier # None
        THEN DictSet(claimed, frontier, sender_id)
        ELSE claimed

_process_claim_packet(claimed, payload) ==
    LET sender_id == payload.sender_id
        frontier  == payload.target_frontier
    IN  IF frontier # None
        THEN IF frontier \notin DOMAIN claimed
             THEN DictSet(claimed, frontier, sender_id)
             ELSE IF sender_id < claimed[frontier]
                  THEN DictSet(claimed, frontier, sender_id)
                  ELSE claimed
        ELSE claimed

\* ------------------------------------------------------ agent state machine
\* The state of one node, as the handlers read and write it.
NodeState(a) ==
    [local_map         |-> local_map[a],
     frontiers         |-> frontiers[a],
     target_frontier   |-> target_frontier[a],
     claimed_frontiers |-> claimed_frontiers[a],
     current_position  |-> current_position[a],
     stuck_counter     |-> stuck_counter[a]]

\* Faulty variant: CLEANUP without the pruning of the frontier list.
TickCleanup_no_prune(s) ==
    LET lm == IF s.current_position \notin DOMAIN s.local_map
              THEN DictSet(s.local_map, s.current_position, {})
              ELSE s.local_map
    IN  [s EXCEPT !.local_map = lm,
                  !.target_frontier = IF s.target_frontier = s.current_position
                                      THEN None ELSE s.target_frontier]

\* tick, CLEANUP: position registered, explored frontiers pruned, reached
\* target cleared.
TickCleanup(s) ==
    LET lm == IF s.current_position \notin DOMAIN s.local_map
              THEN DictSet(s.local_map, s.current_position, {})
              ELSE s.local_map
    IN  [s EXCEPT !.local_map = lm,
                  !.frontiers = SelectSeq(s.frontiers, LAMBDA f : f \notin DOMAIN lm),
                  !.target_frontier = IF s.target_frontier = s.current_position
                                      THEN None ELSE s.target_frontier]

\* Faulty variant: the target is never yielded.
TickYield_keep(a, s) == s

\* ANTI-LIVELOCK yielding to any recorded owner that is not higher, the agent
\* itself included.
TickYield_or_equal(a, s) ==
    IF /\ s.target_frontier # None
       /\ s.target_frontier \in DOMAIN s.claimed_frontiers
       /\ s.claimed_frontiers[s.target_frontier] <= a
    THEN [s EXCEPT !.target_frontier = None]
    ELSE s

\* tick, ANTI-LIVELOCK: yield the target to a lower identifier.
TickYield(a, s) ==
    IF /\ s.target_frontier # None
       /\ s.target_frontier \in DOMAIN s.claimed_frontiers
       /\ s.claimed_frontiers[s.target_frontier] < a
    THEN [s EXCEPT !.target_frontier = None]
    ELSE s

\* tick, SCAN and BROADCAST sending the cell the agent stands on instead of
\* every Local Map key.
TickScan_send_position_only(a, view, s) ==
    LET r == _scan_neighbors(view, s.local_map, s.frontiers, s.current_position)
    IN  [state |-> [s EXCEPT !.local_map = r.local_map, !.frontiers = r.frontiers],
         new_frontiers |-> r.new_frontiers,
         sent |-> _broadcast_map_update(a, {s.current_position}, r.new_frontiers)]

\* tick, SCAN and BROADCAST: the state after them and the payloads sent.
TickScan(a, view, s) ==
    LET r == _scan_neighbors(view, s.local_map, s.frontiers, s.current_position)
        new_nodes == DOMAIN r.local_map
    IN  [state |-> [s EXCEPT !.local_map = r.local_map, !.frontiers = r.frontiers],
         new_frontiers |-> r.new_frontiers,
         sent |-> _broadcast_map_update(a, new_nodes, r.new_frontiers)]

\* Faulty variant: the claim is announced before it is recorded locally.
TickDecide_announce_first(a, s) ==
    IF s.target_frontier = None
    THEN {IF selected # None
          THEN LET s1 == [s EXCEPT !.claimed_frontiers =
                                       DictSet(s.claimed_frontiers, selected, a)]
                   s2 == [s1 EXCEPT !.target_frontier = selected]
               IN  [state |-> s2, selected |-> selected,
                    sent |-> _broadcast_frontier_claim(a, selected), at_send |-> s]
          ELSE [state |-> s, selected |-> None, sent |-> <<>>, at_send |-> None]
          : selected \in _select_best_frontier(DOMAIN s.local_map, s.frontiers,
                                               s.claimed_frontiers, s.current_position)}
    ELSE {[state |-> s, selected |-> None, sent |-> <<>>, at_send |-> None]}

\* tick, DECIDE: the outcomes of the random selection. at_send is the node's
\* state at the call of _broadcast_frontier_claim.
TickDecide(a, s) ==
    IF s.target_frontier = None
    THEN {IF selected # None
          THEN LET s1 == [s EXCEPT !.claimed_frontiers =
                                       DictSet(s.claimed_frontiers, selected, a)]
                   s2 == [s1 EXCEPT !.target_frontier = selected]
               IN  [state |-> s2, selected |-> selected,
                    sent |-> _broadcast_frontier_claim(a, selected), at_send |-> s2]
          ELSE [state |-> s, selected |-> None, sent |-> <<>>, at_send |-> None]
          : selected \in _select_best_frontier(DOMAIN s.local_map, s.frontiers,
                                               s.claimed_frontiers, s.current_position)}
    ELSE {[state |-> s, selected |-> None, sent |-> <<>>, at_send |-> None]}

\* _move_toward_target: the outcomes (the state and the returned position).
\* _move_toward_target with the escape taken as soon as the counter reaches the limit.
_move_toward_target_escape_at_limit(s) ==
    IF s.target_frontier = None \/ s.current_position = None
    THEN {[state |-> s, new_pos |-> s.current_position, next_step |-> None]}
    ELSE LET next_step == _find_next_step_bfs(DOMAIN s.local_map \cup {s.current_position},
                                              s.current_position, s.target_frontier)
         IN  IF next_step = None
             THEN LET s2 == [s EXCEPT !.target_frontier = None,
                                      !.stuck_counter = s.stuck_counter + 1]
                  IN  IF s2.stuck_counter >= StuckLimit /\ s2.frontiers # <<>>
                      THEN {[state |-> [s2 EXCEPT !.target_frontier = f,
                                                  !.stuck_counter = 0],
                             new_pos |-> s.current_position, next_step |-> None]
                            : f \in Range(s2.frontiers)}
                      ELSE {[state |-> s2, new_pos |-> s.current_position,
                             next_step |-> None]}
             ELSE {[state |-> [s EXCEPT !.stuck_counter = 0],
                    new_pos |-> next_step, next_step |-> next_step]}

\* _move_toward_target keeping the target and the counter when no path is found.
_move_toward_target_keep_target(s) ==
    IF s.target_frontier = None \/ s.current_position = None
    THEN {[state |-> s, new_pos |-> s.current_position, next_step |-> None]}
    ELSE LET next_step == _find_next_step_bfs(DOMAIN s.local_map \cup {s.current_position},
                                              s.current_position, s.target_frontier)
         IN  IF next_step = None
             THEN {[state |-> s, new_pos |-> s.current_position, next_step |-> None]}
             ELSE {[state |-> [s EXCEPT !.stuck_counter = 0],
                    new_pos |-> next_step, next_step |-> next_step]}

_move_toward_target(s) ==
    IF s.target_frontier = None \/ s.current_position = None
    THEN {[state |-> s, new_pos |-> s.current_position, next_step |-> None]}
    ELSE LET lm == IF s.current_position \notin DOMAIN s.local_map
                   THEN DictSet(s.local_map, s.current_position, {})
                   ELSE s.local_map
             s1 == [s EXCEPT !.local_map = lm]
             next_step == _find_next_step_bfs(DOMAIN lm, s.current_position,
                                              s.target_frontier)
         IN  IF next_step = None
             THEN LET s2 == [s1 EXCEPT !.target_frontier = None,
                                       !.stuck_counter = s.stuck_counter + 1]
                  IN  IF s2.stuck_counter > StuckLimit /\ s2.frontiers # <<>>
                      THEN {[state |-> [s2 EXCEPT !.target_frontier = f,
                                                  !.stuck_counter = 0],
                             new_pos |-> s.current_position, next_step |-> None]
                            : f \in Range(s2.frontiers)}
                      ELSE {[state |-> s2, new_pos |-> s.current_position,
                             next_step |-> None]}
             ELSE {[state |-> [s1 EXCEPT !.stuck_counter = 0],
                    new_pos |-> next_step, next_step |-> next_step]}

\* MOVE entering the cell it steps onto in the Local Map at once.
TickMove_maps_new_position(s) ==
    IF s.target_frontier # None
    THEN {[state |-> [m.state EXCEPT !.current_position = m.new_pos,
                                     !.local_map = DictSet(m.state.local_map, m.new_pos, {})],
           next_step |-> m.next_step]
          : m \in _move_toward_target(s)}
    ELSE {[state |-> s, next_step |-> None]}

\* tick, MOVE dropping the target as soon as the step lands on it.
TickMove_clear_on_arrival(s) ==
    IF s.target_frontier # None
    THEN {LET t == m.state
          IN  [state |-> IF m.new_pos # t.current_position
                         THEN [t EXCEPT !.current_position = m.new_pos,
                                        !.target_frontier =
                                            IF m.new_pos = t.target_frontier
                                            THEN None ELSE t.target_frontier]
                         ELSE IF m.new_pos = t.target_frontier
                              THEN [t EXCEPT !.target_frontier = None]
                              ELSE t,
               next_step |-> m.next_step]
          : m \in _move_toward_target(s)}
    ELSE {[state |-> s, next_step |-> None]}

\* tick, MOVE.
TickMove(s) ==
    IF s.target_frontier # None
    THEN {LET t == m.state
          IN  [state |-> IF m.new_pos # t.current_position
                         THEN [t EXCEPT !.current_position = m.new_pos]
                         ELSE IF m.new_pos = t.target_frontier
                              THEN [t EXCEPT !.target_frontier = None]
                              ELSE t,
               next_step |-> m.next_step]
          : m \in _move_toward_target(s)}
    ELSE {[state |-> s, next_step |-> None]}

\* Node.tick: every outcome of one tick of agent a on the grid view, with
\* the states between its phases.
tick(a, view, s0) ==
    LET c == TickCleanup(s0)
        y == TickYield(a, c)
        n == TickScan(a, view, y)
    IN  UNION {{[state |-> m.state,
          after_cleanup |-> c,
          after_yield |-> y,
          after_scan |-> n.state,
          new_frontiers |-> n.new_frontiers,
          at_decide |-> n.state,
          selected |-> d.selected,
          at_send |-> d.at_send,
          at_move |-> d.state,
          next_step |-> m.next_step,
          sent |-> n.sent \o d.sent]
         : m \in TickMove(d.state)} : d \in TickDecide(a, n.state)}

\* ------------------------------------------------------------ the swarm
\* No exception.
NoError == "no error"

\* A message text is modelled by how json.loads takes it: parses tells whether
\* it is JSON at all, value is the decoded JSON value, tagged with its kind;
\* an object carries its members as a record.  (A cell travels as a two-element
\* array and is turned back into a tuple by the handlers; both are <<r, c>>.)
json_dumps(payload) ==
    [parses |-> TRUE, value |-> [kind |-> "object", fields |-> payload]]

json_loads(msg) ==
    IF msg.parses THEN [raised |-> NoError, value |-> msg.value]
    ELSE [raised |-> "JSONDecodeError", value |-> None]

\* payload.get("type") == msg_type
HasType(payload, msg_type) ==
    "type" \in DOMAIN payload /\ payload.type = msg_type

\* Faulty variant: a map-update that maps the target also drops the target.
Dispatch_drop_mapped_target(s, payload) ==
    IF HasType(payload, "MERGE")
    THEN LET r == _process_merge_packet(s.local_map, s.frontiers, payload)
         IN  [s EXCEPT !.local_map = r.local_map, !.frontiers = r.frontiers,
                       !.target_frontier = IF s.target_frontier \in DOMAIN r.local_map
                                           THEN None ELSE s.target_frontier]
    ELSE IF HasType(payload, "CLAIM")
    THEN [s EXCEPT !.claimed_frontiers =
                       _process_claim_packet(s.claimed_frontiers, payload)]
    ELSE s

\* process_message after json.loads returned the object payload: dispatch on
\* the type member.
Dispatch(s, payload) ==
    IF HasType(payload, "MERGE")
    THEN LET r == _process_merge_packet(s.local_map, s.frontiers, payload)
         IN  [s EXCEPT !.local_map = r.local_map, !.frontiers = r.frontiers]
    ELSE IF HasType(payload, "CLAIM")
    THEN [s EXCEPT !.claimed_frontiers =
                       _process_claim_packet(s.claimed_frontiers, payload)]
    ELSE s

\* process_message: the node after the call and the exception that leaves it
\* (NoError when it returns).  Only json.JSONDecodeError is caught; payload.get on
\* a decoded value that is not an object raises AttributeError.
process_message(s, msg) ==
    LET loaded == json_loads(msg)
    IN  IF loaded.raised = "JSONDecodeError"
        THEN [state |-> s, raised |-> NoError]
        ELSE IF loaded.value.kind # "object"
        THEN [state |-> s, raised |-> "AttributeError"]
        ELSE [state |-> Dispatch(s, loaded.value.fields), raised |-> NoError]

\* The node after it was handed the text json.dumps made of payload.
Delivered(s, payload) == process_message(s, json_dumps(payload)).state

\* Node.__init__ and set_initial_position
InitialNode(position) ==
    [local_map         |-> DictSet(<<>>, position, {}),
     frontiers         |-> <<>>,
     target_frontier   |-> None,
     claimed_frontiers |-> <<>>,
     current_position  |-> position,
     stuck_counter     |-> 0]

\* Store on fields that all the nodes share.
Store_shared(a, s) ==
    /\ local_map'         = [b \in Agents |-> s.local_map]
    /\ frontiers'         = [frontiers EXCEPT ![a] = s.frontiers]
    /\ target_frontier'   = [target_frontier EXCEPT ![a] = s.target_frontier]
    /\ claimed_frontiers' = [b \in Agents |-> s.claimed_frontiers]
    /\ current_position'  = [current_position EXCEPT ![a] = s.current_position]
    /\ stuck_counter'     = [stuck_counter EXCEPT ![a] = s.stuck_counter]

Store(a, s) ==
    /\ local_map'         = [local_map EXCEPT ![a] = s.local_map]
    /\ frontiers'         = [frontiers EXCEPT ![a] = s.frontiers]
    /\ target_frontier'   = [target_frontier EXCEPT ![a] = s.target_frontier]
    /\ claimed_frontiers' = [claimed_frontiers EXCEPT ![a] = s.claimed_frontiers]
    /\ current_position'  = [current_position EXCEPT ![a] = s.current_position]
    /\ stuck_counter'     = [stuck_counter EXCEPT ![a] = s.stuck_counter]

\* No exploration driver runs: no goal is set and no datagram is pending.
NoDriver ==
    /\ goal_cell = None
    /\ goal_reached = FALSE
    /\ pc = [at |-> "start"]
    /\ received = [a \in Agents |-> None]

\* spawn_agents: every agent at the start position, nothing sent yet.
Placed(sc) ==
    /\ maze = sc.grid
    /\ local_map         = [a \in Agents |-> InitialNode(sc.start).local_map]
    /\ frontiers         = [a \in Agents |-> InitialNode(sc.start).frontiers]
    /\ target_frontier   = [a \in Agents |-> InitialNode(sc.start).target_frontier]
    /\ claimed_frontiers = [a \in Agents |-> InitialNode(sc.start).claimed_frontiers]
    /\ current_position  = [a \in Agents |-> InitialNode(sc.start).current_position]
    /\ stuck_counter     = [a \in Agents |-> InitialNode(sc.start).stuck_counter]
    /\ net = [a \in Agents |-> {}]
    /\ tick_count = 0
    /\ last = [op |-> "init", agent |-> 0, before |-> None, phases |-> None]

Spawn(scenarios) ==
    /\ \E sc \in scenarios : Placed(sc)
    /\ round = 1
    /\ turn = {}
    /\ messages = <<>>
    /\ round_claims = {}
    /\ prev_claims = {}
    /\ NoDriver

Init == Spawn(Scenarios)

\* The datagrams of one tick: send_json to every peer port but the own one.
Datagrams(a, sent) == [p \in Agents |-> IF p = a THEN {} ELSE Range(sent)]

\* One tick of agent a on the full maze (run_live_simulation, simulate_tick)
\* with outcome t. The channel may hand each datagram of net[p] to p at any
\* later time, in any order, more than once or never.
TickStep(a, t) ==
    /\ Store(a, t.state)
    /\ net' = [p \in Agents |-> net[p] \cup Datagrams(a, t.sent)[p]]
    /\ tick_count' = tick_count + 1
    /\ last' = [op |-> "tick", agent |-> a, before |-> NodeState(a), phases |-> t]
    /\ UNCHANGED maze

Tick(a) ==
    /\ tick_count < MaxTicks
    /\ \E t \in tick(a, maze, NodeState(a)) : TickStep(a, t)
    /\ UNCHANGED sim_vars

\* web_listen: datagram m is received and handed to process_message.
DeliverStep(a, m) ==
    /\ Store(a, Delivered(NodeState(a), m))
    /\ last' = [op |-> "deliver", agent |-> 0, before |-> None, phases |-> None]
    /\ UNCHANGED <<maze, net, tick_count>>

Deliver(a) ==
    /\ \E m \in net[a] : DeliverStep(a, m)
    /\ UNCHANGED sim_vars

Next == \E a \in Agents : Tick(a) \/ Deliver(a)

Spec == Init /\ [][Next]_vars

\* ------------------------------------------------- the simulation driver
\* main() of simulation/test_backend_simulation.py: in every round each agent
\* ticks once, in the order of the list, its payloads are captured, and then
\* deliver_messages hands every captured payload to every other agent.

\* The frontiers announced by the payloads of one tick.
Announced(sent) ==
    {sent[i].target_frontier : i \in {j \in 1..Len(sent) : sent[j].type = "CLAIM"}}

\* capture_and_send: one entry per send_json call, that is per peer port.
RECURSIVE Captured(_, _, _)
Captured(a, sent, i) ==
    IF i > Len(sent) THEN <<>>
    ELSE [k \in 1..(Cardinality(Agents) - 1) |-> <<a, sent[i]>>]
         \o Captured(a, sent, i + 1)

\* simulate_tick: the next agent of the list ticks.
SimTick(a) ==
    /\ round <= MaxRounds
    /\ a \notin turn
    /\ \A b \in Agents : b < a => b \in turn
    /\ \E t \in tick(a, maze, NodeState(a)) :
          /\ TickStep(a, t)
          /\ messages' = messages \o Captured(a, t.sent, 1)
          /\ round_claims' = round_claims \cup {<<a, f>> : f \in Announced(t.sent)}
    /\ turn' = turn \cup {a}
    /\ UNCHANGED <<round, prev_claims>>
    /\ UNCHANGED drv_vars

\* deliver_messages: the state of recipient r after the captured payloads
\* from index i on.
RECURSIVE DeliverAll(_, _, _, _)
DeliverAll(r, s, msgs, i) ==
    IF i > Len(msgs) THEN s
    ELSE DeliverAll(r, IF r # msgs[i][1] THEN Delivered(s, msgs[i][2]) ELSE s,
                    msgs, i + 1)

SimDeliver ==
    /\ turn = Agents
    /\ LET after == [r \in Agents |-> DeliverAll(r, NodeState(r), messages, 1)]
       IN  /\ local_map'         = [r \in Agents |-> after[r].local_map]
           /\ frontiers'         = [r \in Agents |-> after[r].frontiers]
           /\ target_frontier'   = [r \in Agents |-> after[r].target_frontier]
           /\ claimed_frontiers' = [r \in Agents |-> after[r].claimed_frontiers]
           /\ current_position'  = [r \in Agents |-> after[r].current_position]
           /\ stuck_counter'     = [r \in Agents |-> after[r].stuck_counter]
    /\ round' = round + 1
    /\ turn' = {}
    /\ messages' = <<>>
    /\ prev_claims' = round_claims
    /\ round_claims' = {}
    /\ last' = [op |-> "deliver", agent |-> 0, before |-> None, phases |-> None]
    /\ UNCHANGED <<maze, net, tick_count>>
    /\ UNCHANGED drv_vars

NextSim == (\E a \in Agents : SimTick(a)) \/ SimDeliver

InitSim == Spawn(SimScenarios)

SpecSim == InitSim /\ [][NextSim]_vars

\* ------------------------------------------------------ one node's inbox
\* web_listen of one node fed by arbitrary peers: any map-update and any
\* claim-announce of the sets below may arrive at any time, in any order and
\* repeatedly. The node does not tick.
Receiver == 1

\* sender_id of the arriving payloads (the receiver's own identifier stands
\* for the entries its DECIDE wrote).
Senders == {1, 2, 3}

MapUpdates ==
    {[type |-> "MERGE", sender_id |-> 2, nodes |-> n, frontiers |-> f] :
        n \in {{<<0, 0>>}, {<<0, 0>>, <<0, 1>>}, {<<0, 1>>, <<1, 0>>}},
        f \in {<<>>, << <<0, 1>> >>, << <<1, 0>>, <<0, 1>> >>,
               << <<0, 1>>, <<1, 0>> >>, << <<1, 1>> >>}}

ClaimAnnounces ==
    {[type |-> "CLAIM", sender_id |-> s, target_frontier |-> f] :
        s \in Senders, f \in {<<0, 1>>, <<1, 0>>}}

InboxMessages == MapUpdates \cup ClaimAnnounces

\* The receiver hands payload m to process_message.
Receive(m) ==
    /\ Store(Receiver, Delivered(NodeState(Receiver), m))
    /\ last' = [op |-> "deliver", agent |-> 0, before |-> None, phases |-> None]
    /\ UNCHANGED <<maze, net, tick_count>>
    /\ UNCHANGED sim_vars

ReceiveMerge == \E m \in MapUpdates : Receive(m)

ReceiveClaim == \E m \in ClaimAnnounces : Receive(m)

NextInbox == ReceiveMerge \/ ReceiveClaim

InitInbox == Spawn({[grid |-> Branch, start |-> <<0, 0>>]})

SpecInbox == InitInbox /\ [][NextInbox]_vars

\* ------------------------------------------------------ calls of one node
\* The methods of one node called on states drawn from bounded sets: the
\* Local Map keys are any set of cells of a 3x3 area that holds the node's
\* position.
Caller == 1

AreaCells == (0..2) \X (0..2)

\* A swarm whose nodes all hold the drawn fields.
Draw(view, lm, fr, target, claimed, position) ==
    /\ maze = view
    /\ local_map         = [a \in Agents |-> lm]
    /\ frontiers         = [a \in Agents |-> fr]
    /\ target_frontier   = [a \in Agents |-> target]
    /\ claimed_frontiers = [a \in Agents |-> claimed]
    /\ current_position  = [a \in Agents |-> position]
    /\ stuck_counter     = [a \in Agents |-> 0]
    /\ net = [a \in Agents |-> {}]
    /\ tick_count = 0
    /\ last = [op |-> "init", agent |-> 0, before |-> None, phases |-> None]
    /\ round = 1
    /\ turn = {}
    /\ messages = <<>>
    /\ round_claims = {}
    /\ prev_claims = {}
    /\ NoDriver

\* A call that changes no field of the node; its result is kept in last.
Returned(name, result) ==
    /\ last' = [op |-> name, agent |-> Caller, before |-> None, phases |-> result]
    /\ UNCHANGED <<node_vars, maze, net, tick_count>>
    /\ UNCHANGED sim_vars

\* self._find_next_step_bfs(self.target_frontier), as _move_toward_target
\* calls it.
CallNextStep ==
    Returned("_find_next_step_bfs",
             _find_next_step_bfs(DOMAIN local_map[Caller], current_position[Caller],
                                 target_frontier[Caller]))

\* self._get_bfs_distance(self.current_position, f), as _select_best_frontier
\* calls it.
CallDistance ==
    Returned("_get_bfs_distance",
             _get_bfs_distance(DOMAIN local_map[Caller], current_position[Caller],
                               target_frontier[Caller]))

NextPath == CallNextStep \/ CallDistance

InitPath ==
    \E keys \in SUBSET AreaCells : \E position \in keys : \E target \in AreaCells :
        Draw(Corridor, [c \in keys |-> {}], <<>>, target, <<>>, position)

SpecPath == InitPath /\ [][NextPath]_vars

\* Frontier selection called on drawn states: the node stands at an end of a
\* mapped row, its Frontier Set is any list without repetition of up to four
\* unmapped cells, and any of them may be recorded in its Claim Table.
SelectKeys == {<<0, 0>>, <<0, 1>>, <<0, 2>>}

SelectCandidates == {<<1, 0>>, <<1, 1>>, <<1, 2>>, <<2, 0>>, <<2, 1>>}

\* The lists of cells of S without repetition.
Lists(S) ==
    {q \in UNION {[1..n -> S] : n \in 0..4} :
        \A i \in DOMAIN q : \A j \in DOMAIN q : i # j => q[i] # q[j]}

\* self._select_best_frontier(), as DECIDE calls it.
CallSelect ==
    \E selected \in _select_best_frontier(DOMAIN local_map[Caller], frontiers[Caller],
                                          claimed_frontiers[Caller],
                                          current_position[Caller]) :
        Returned("_select_best_frontier", selected)

NextSelect == CallSelect

InitSelect ==
    \E fr \in Lists(SelectCandidates) : \E owned \in SUBSET SelectCandidates :
    \E owner \in Agents : \E position \in {<<0, 0>>, <<0, 2>>} :
        Draw(Corridor, [c \in SelectKeys |-> {}], fr, None,
             [c \in owned |-> owner], position)

SpecSelect == InitSelect /\ [][NextSelect]_vars

\* The scan called on drawn states: any 3x3 grid view with open corners, the
\* node on an open cell, any open 4-neighbours of it as further Local Map
\* keys, and as Frontier Set any list without repetition of up to two open
\* unmapped cells.
ScanViews ==
    {v \in [1..3 -> [1..3 -> {0, 1}]] :
        v[1][1] = 0 /\ v[1][3] = 0 /\ v[3][1] = 0 /\ v[3][3] = 0}

OpenCells(view) ==
    {c \in AreaCells : InBounds(view, c) /\ ~_is_wall(CellAt(view, c))}

\* new_frontiers = self._scan_neighbors(local_grid_view), as SCAN calls it.
CallScan ==
    LET r == _scan_neighbors(maze, local_map[Caller], frontiers[Caller],
                             current_position[Caller])
    IN  /\ Store(Caller, [NodeState(Caller) EXCEPT !.local_map = r.local_map,
                                                    !.frontiers = r.frontiers])
        /\ last' = [op |-> "_scan_neighbors", agent |-> Caller,
                    before |-> NodeState(Caller), phases |-> r.new_frontiers]
        /\ UNCHANGED <<maze, net, tick_count>>
        /\ UNCHANGED sim_vars

NextScan == CallScan

InitScan ==
    \E view \in ScanViews : \E position \in OpenCells(view) :
    \E keys \in SUBSET (OpenCells(view) \cap
                         {Plus(position, directions[i]) : i \in 1..Len(directions)}) :
    \E fr \in Lists(OpenCells(view) \ (keys \cup {position})) :
        /\ Len(fr) <= 2
        /\ Draw(view, [c \in keys \cup {position} |-> {}], fr, None, <<>>, position)

SpecScan == InitScan /\ [][NextScan]_vars

\* One node that learnt frontiers beyond a wall from a peer standing there:
\* it ticks on a view whose middle column is wall, knowing unmapped cells of
\* the far column as frontiers, with any of the cells recorded for agent 2.
StuckViews == { << <<0, 1, 0>>, <<0, 1, 0>> >>, << <<0, 1, 0>>, <<1, 1, 0>> >> }

FarCells == {<<0, 2>>, <<1, 2>>}

\* Ticks of the walled-in node in one run.
MaxStuckTicks == 8

StuckTick ==
    /\ tick_count < MaxStuckTicks
    /\ \E t \in tick(Caller, maze, NodeState(Caller)) : TickStep(Caller, t)
    /\ UNCHANGED sim_vars

NextStuck == StuckTick

InitStuck ==
    \E view \in StuckViews : \E fr \in Lists(FarCells) :
    \E keys \in SUBSET (FarCells \ Range(fr)) :
    \E owned \in SUBSET (FarCells \cup {<<1, 0>>}) :
        Draw(view, [c \in keys \cup {<<0, 0>>} |-> {}], fr, None,
             [c \in owned |-> 2], <<0, 0>>)

SpecStuck == InitStuck /\ [][NextStuck]_vars

\* ------------------------------------------------------------ a lone agent
\* A swarm of one: the agent is placed on an open cell of a grid and ticks,
\* no peer ever sending it anything.
MaxAloneTicks == 2

AloneTick ==
    /\ tick_count < MaxAloneTicks
    /\ \E t \in tick(Caller, maze, NodeState(Caller)) : TickStep(Caller, t)
    /\ UNCHANGED sim_vars

NextAlone == AloneTick

InitAlone ==
    \E view \in ScanViews : \E s \in OpenCells(view) :
        Draw(view, InitialNode(s).local_map, InitialNode(s).frontiers,
             InitialNode(s).target_frontier, InitialNode(s).claimed_frontiers, s)

SpecAlone == InitAlone /\ [][NextAlone]_vars

\* ------------------------------------------ simulate_swarm_exploration
Cross == << <<1, 0, 1>>,
            <<0, 0, 0>>,
            <<1, 0, 1>> >>

\* maze, start and goal of the runs: a goal next to the start, the start
\* itself, a wall cell, and a start from which no agent ever moves.
ExploreScenarios ==
    {[grid |-> Cross, start |-> <<1, 1>>, goal |-> g] :
        g \in {<<0, 1>>, <<1, 2>>, <<1, 1>>, <<2, 2>>}}
    \cup {[grid |-> Corridor, start |-> <<0, 0>>, goal |-> <<0, 1>>],
          [grid |-> Branch, start |-> <<0, 0>>, goal |-> <<0, 0>>]}

\* max_ticks
MaxExploreTicks == 3

\* radius of get_local_grid_view
Radius == 1

\* get_local_grid_view: the cells within Radius of the position, cells outside
\* the maze taken as walls.
get_local_grid_view(grid, position) ==
    [i \in 1..(2 * Radius + 1) |->
        [j \in 1..(2 * Radius + 1) |->
            LET c == <<position[1] - Radius + i - 1, position[2] - Radius + j - 1>>
            IN  IF InBounds(grid, c) THEN CellAt(grid, c) ELSE 1]]

\* while tick_count < max_ticks and not goal_reached: tick_count += 1
\* (round is the driver's tick_count).
ExploreWhile ==
    /\ pc.at = "while"
    /\ IF round < MaxExploreTicks /\ ~goal_reached
       THEN round' = round + 1 /\ turn' = {} /\ pc' = [at |-> "for"]
       ELSE pc' = [at |-> "done"] /\ UNCHANGED <<round, turn>>
    /\ UNCHANGED <<node_vars, maze, net, tick_count, last>>
    /\ UNCHANGED <<messages, round_claims, prev_claims, goal_cell, goal_reached, received>>

\* The for loop going on to the next agent after the goal was found.
ExploreTick_no_break(a) ==
    /\ pc.at = "for"
    /\ a \notin turn
    /\ \A b \in Agents : b < a => b \in turn
    /\ \E t \in tick(a, get_local_grid_view(maze, current_position[a]), NodeState(a)) :
          /\ TickStep(a, t)
          /\ goal_reached' = (goal_reached \/ t.state.current_position = goal_cell)
    /\ pc' = [at |-> IF turn \cup {a} = Agents THEN "while" ELSE "for"]
    /\ turn' = turn \cup {a}
    /\ UNCHANGED <<round, messages, round_claims, prev_claims, goal_cell, received>>

\* for agent in agents: agent.tick(local_view); on the goal: goal_reached and
\* break.
ExploreTick(a) ==
    /\ pc.at = "for"
    /\ a \notin turn
    /\ \A b \in Agents : b < a => b \in turn
    /\ \E t \in tick(a, get_local_grid_view(maze, current_position[a]), NodeState(a)) :
          /\ TickStep(a, t)
          /\ IF t.state.current_position = goal_cell
             THEN goal_reached' = TRUE /\ pc' = [at |-> "while"]
             ELSE /\ UNCHANGED goal_reached
                  /\ pc' = [at |-> IF turn \cup {a} = Agents THEN "while" ELSE "for"]
    /\ turn' = turn \cup {a}
    /\ UNCHANGED <<round, messages, round_claims, prev_claims, goal_cell, received>>

NextExplore == ExploreWhile \/ \E a \in Agents : ExploreTick(a)

InitExplore ==
    /\ \E sc \in ExploreScenarios : Placed(sc) /\ goal_cell = sc.goal
    /\ round = 0
    /\ turn = {}
    /\ messages = <<>>
    /\ round_claims = {}
    /\ prev_claims = {}
    /\ goal_reached = FALSE
    /\ pc = [at |-> "while"]
    /\ received = [a \in Agents |-> None]

SpecExplore == InitExplore /\ [][NextExplore]_vars

\* --------------------------------------------------------------- listening
\* A datagram is modelled by how bytes.decode takes it: utf8 tells whether it
\* decodes, text is the decoded message text.
encode(msg) == [utf8 |-> TRUE, text |-> msg]

decode(data) ==
    IF data.utf8 THEN [raised |-> NoError, text |-> data.text]
    ELSE [raised |-> "UnicodeDecodeError", text |-> None]

\* send_json: the datagram put on the wire for payload.
send_json(payload) == encode(json_dumps(payload))

\* web_listen calling on_message only for the message types the node knows.
web_listen_known_types_only(s, data) ==
    LET d == decode(data)
        r == process_message(s, d.text)
    IN  IF d.raised # NoError
        THEN [state |-> s, processed |-> <<>>, on_message |-> <<>>,
              caught |-> d.raised]
        ELSE [state |-> r.state, processed |-> <<d.text>>,
              on_message |-> IF r.state # s THEN <<d.text>> ELSE <<>>,
              caught |-> r.raised]

\* One iteration of web_listen on the received datagram: the node afterwards,
\* the texts handed to process_message and to on_message, and the exception
\* caught by the loop (NoError when there was none).
web_listen(s, data) ==
    LET d == decode(data)
    IN  IF d.raised # NoError
        THEN [state |-> s, processed |-> <<>>, on_message |-> <<>>,
              caught |-> d.raised]
        ELSE LET r == process_message(s, d.text)
             IN  IF r.raised # NoError
                 THEN [state |-> r.state, processed |-> <<d.text>>,
                       on_message |-> <<>>, caught |-> r.raised]
                 ELSE [state |-> r.state, processed |-> <<d.text>>,
                       on_message |-> <<d.text>>, caught |-> NoError]

\* Payloads of other programs on the same ports: types the node does not know
\* and an object without a type member.
ForeignPayloads ==
    {[type |-> "ping", data |-> "test_payload"],
     [type |-> "test", payload |-> "Integration Test Message"],
     [data |-> "test_payload"]}

\* Message texts that are no JSON object: no JSON at all, and JSON values of
\* the other kinds.
NotJson == [parses |-> FALSE, value |-> None]

NonObjects ==
    {[parses |-> TRUE, value |-> [kind |-> k, fields |-> None]] :
        k \in {"array", "number", "string", "null"}}

MessageTexts ==
    {json_dumps(p) : p \in InboxMessages \cup ForeignPayloads}
        \cup NonObjects \cup {NotJson}

\* Datagrams that no send_json produced: texts that are no JSON object, and
\* bytes that are no UTF-8.
OtherDatagrams ==
    {encode(m) : m \in NonObjects \cup {NotJson}}
        \cup {[utf8 |-> FALSE, text |-> None]}

\* A direct call of process_message on a message text.
CallProcessMessage ==
    \E msg \in MessageTexts :
        LET r == process_message(NodeState(Receiver), msg)
        IN  /\ Store(Receiver, r.state)
            /\ last' = [op |-> "process_message", agent |-> Receiver,
                        before |-> NodeState(Receiver),
                        phases |-> [msg |-> msg, raised |-> r.raised]]
            /\ UNCHANGED <<maze, net, tick_count>>
            /\ UNCHANGED sim_vars

\* The listening loop receives a datagram.
Listen(data) ==
    LET r == web_listen(NodeState(Receiver), data)
    IN  /\ Store(Receiver, r.state)
        /\ last' = [op |-> "web_listen", agent |-> Receiver,
                    before |-> NodeState(Receiver),
                    phases |-> [data |-> data, processed |-> r.processed,
                                on_message |-> r.on_message, caught |-> r.caught]]
        /\ UNCHANGED <<maze, net, tick_count>>
        /\ UNCHANGED sim_vars

\* A datagram a peer sent with send_json arrives.
ListenSent == \E p \in InboxMessages \cup ForeignPayloads : Listen(send_json(p))

\* Any other datagram arrives.
ListenOther == \E data \in OtherDatagrams : Listen(data)

NextListen == CallProcessMessage \/ ListenSent \/ ListenOther

InitListen == Spawn({[grid |-> Branch, start |-> <<0, 0>>]})

SpecListen == InitListen /\ [][NextListen]_vars

\* ------------------------------------------------- run_live_simulation
\* maze, start and end of the live runs.
LiveScenarios ==
    {[grid |-> Corridor, start |-> <<0, 0>>, goal |-> <<0, 3>>],
     [grid |-> Branch,   start |-> <<0, 0>>, goal |-> <<0, 2>>]}

\* Rounds of a live run (the failsafe on its loop variable tick).
MaxLiveRounds == 2

\* Listeners that run in threads of their own, whatever the driver does.
LoopIdle_threads == TRUE

\* Every thread of control the event loop schedules (run_live_simulation and
\* the web_listen task of each agent) runs until its next await: a listener
\* resumes only while run_live_simulation waits at one of its awaits.
LoopIdle == pc.at = "await"

\* agent.tick(maze) begins: the fields written up to SCAN are in place.
LiveTickBegin(a) ==
    /\ pc.at = "await"
    /\ a \notin turn
    /\ \A b \in Agents : b < a => b \in turn
    /\ turn = {} => ~goal_reached /\ round < MaxLiveRounds
    /\ round' = IF turn = {} THEN round + 1 ELSE round
    /\ \E t \in tick(a, maze, NodeState(a)) :
          /\ Store(a, t.after_scan)
          /\ pc' = [at |-> "tick", agent |-> a, outcome |-> t]
    /\ last' = [op |-> "tick_begin", agent |-> a, before |-> NodeState(a),
                phases |-> None]
    /\ UNCHANGED <<maze, net, tick_count, turn, messages, round_claims,
                   prev_claims, goal_cell, goal_reached, received>>

\* agent.tick(maze) returns; the goal test; the driver reaches its next await.
LiveTickEnd ==
    /\ pc.at = "tick"
    /\ Store(pc.agent, pc.outcome.state)
    /\ net' = [p \in Agents |-> net[p] \cup Datagrams(pc.agent, pc.outcome.sent)[p]]
    /\ tick_count' = tick_count + 1
    /\ last' = [op |-> "tick", agent |-> pc.agent, before |-> last.before,
                phases |-> pc.outcome]
    /\ goal_reached' = (goal_reached \/ pc.outcome.state.current_position = goal_cell)
    /\ turn' = IF turn \cup {pc.agent} = Agents THEN {} ELSE turn \cup {pc.agent}
    /\ pc' = [at |-> "await"]
    /\ UNCHANGED <<maze, round, messages, round_claims, prev_claims, goal_cell,
                   received>>

\* The executor thread of a's listener: recvfrom returns a datagram.
Recv(a) ==
    /\ received[a] = None
    /\ \E m \in net[a] : received' = [received EXCEPT ![a] = m]
    /\ UNCHANGED <<node_vars, maze, net, tick_count, last>>
    /\ UNCHANGED <<round, turn, messages, round_claims, prev_claims, goal_cell,
                   goal_reached, pc>>

\* a's web_listen resumes with the datagram: process_message, on_message, and
\* the next recvfrom is awaited.
LiveListen(a) ==
    /\ LoopIdle
    /\ received[a] # None
    /\ Store(a, web_listen(NodeState(a), send_json(received[a])).state)
    /\ received' = [received EXCEPT ![a] = None]
    /\ last' = [op |-> "web_listen", agent |-> a, before |-> None, phases |-> None]
    /\ UNCHANGED <<maze, net, tick_count>>
    /\ UNCHANGED <<round, turn, messages, round_claims, prev_claims, goal_cell,
                   goal_reached, pc>>

NextLive ==
    \/ \E a \in Agents : LiveTickBegin(a)
    \/ LiveTickEnd
    \/ \E a \in Agents : Recv(a)
    \/ \E a \in Agents : LiveListen(a)

InitLive ==
    /\ \E sc \in LiveScenarios : Placed(sc) /\ goal_cell = sc.goal
    /\ round = 0
    /\ turn = {}
    /\ messages = <<>>
    /\ round_claims = {}
    /\ prev_claims = {}
    /\ goal_reached = FALSE
    /\ pc = [at |-> "await"]
    /\ received = [a \in Agents |-> None]

SpecLive == InitLive /\ [][NextLive]_vars

\* ----------------------------------------------- one agent left to itself
Ring == << <<0, 0, 0>>,
           <<0, 1, 0>>,
           <<0, 0, 0>> >>

Forked == << <<0, 0, 0, 0>>,
             <<1, 0, 1, 0>> >>

WanderGrids == {Corridor, Branch, DeadEnd, Cross, Ring, Forked}

\* The open cells of a grid.
OpenIn(grid) ==
    {c \in (0..(GridRows(grid) - 1)) \X (0..(GridCols(grid) - 1)) :
        ~_is_wall(CellAt(grid, c))}

\* A swarm of one ticked again and again on the full maze, with no goal and
\* no tick budget; it has no peer port to send to.
WanderTick ==
    /\ \E t \in tick(Caller, maze, NodeState(Caller)) :
          /\ Store(Caller, t.state)
          /\ last' = [op |-> "tick", agent |-> Caller,
                      before |-> NodeState(Caller), phases |-> t]
    /\ UNCHANGED <<maze, net, tick_count>>
    /\ UNCHANGED sim_vars

NextWander == WanderTick

InitWander ==
    \E grid \in WanderGrids : \E s \in OpenIn(grid) :
        Draw(grid, InitialNode(s).local_map, InitialNode(s).frontiers,
             InitialNode(s).target_frontier, InitialNode(s).claimed_frontiers, s)

SpecWander == InitWander /\ [][NextWander]_vars

\* ----------------------------------------------------------- unbounded runs
\* The swarm of simulate_tick and run_live_simulation without a tick budget:
\* every agent is ticked on the full maze again and again, in any order.
\* net[p] holds the datagrams waiting in the socket buffer of p: recvfrom
\* takes any one of them, a datagram that meets a full buffer is lost, and a
\* waiting datagram may be lost as well. last names the latest tick.
Hall == << <<0, 0, 0>> >>

ForeverScenarios == { [grid |-> Hall, start |-> <<0, 0>>],
                      [grid |-> Hall, start |-> <<0, 1>>] }

\* Datagrams the socket buffer of one agent holds.
MaxInFlight == 2

\* The buffers after the datagrams of sent have been sent: each fills the
\* buffer or is dropped.
Buffered(buffers, sent) ==
    {b \in [Agents -> SUBSET (UNION {buffers[p] : p \in Agents} \cup UNION {sent[p] : p \in Agents})] :
        \A p \in Agents :
            /\ buffers[p] \subseteq b[p]
            /\ b[p] \subseteq buffers[p] \cup sent[p]
            /\ Cardinality(b[p]) <= MaxInFlight
            /\ \/ b[p] = buffers[p] \cup sent[p]
               \/ Cardinality(b[p]) = MaxInFlight}

TickForever(a) ==
    /\ \E t \in tick(a, maze, NodeState(a)) :
          /\ Store(a, t.state)
          /\ net' \in Buffered(net, Datagrams(a, t.sent))
    /\ last' = [op |-> "tick", agent |-> a, before |-> None, phases |-> None]
    /\ UNCHANGED <<maze, tick_count>>
    /\ UNCHANGED sim_vars

\* recvfrom returns datagram m.
Arrive(a) ==
    /\ \E m \in net[a] :
          /\ Store(a, Delivered(NodeState(a), m))
          /\ net' = [net EXCEPT ![a] = @ \ {m}]
    /\ UNCHANGED <<maze, tick_count, last>>
    /\ UNCHANGED sim_vars

\* A waiting datagram is lost.
Lose(a) ==
    /\ \E m \in net[a] : net' = [net EXCEPT ![a] = @ \ {m}]
    /\ UNCHANGED node_vars
    /\ UNCHANGED <<maze, tick_count, last>>
    /\ UNCHANGED sim_vars

NextForever == \E a \in Agents : TickForever(a) \/ Arrive(a) \/ Lose(a)

InitForever == Spawn(ForeverScenarios)

SpecForever == InitForever /\ [][NextForever]_vars

\* ------------------------------------------------------ distinct placements
\* spawn_agents places every agent on one start; set_initial_position lets a
\* caller place them apart. Agent 1 stands in a cell closed in by walls,
\* agent 2 at the end of a passage that forks.
Apart == << <<0, 1, 0, 0, 0>>,
            <<1, 1, 1, 0, 1>> >>

ApartStarts == [a \in Agents |-> IF a = 1 THEN <<0, 0>> ELSE <<0, 2>>]

\* Calls of Node.tick in one run of the agents placed apart, over all agents.
MaxApartTicks == 8

ApartTick(a) ==
    /\ tick_count < MaxApartTicks
    /\ \E t \in tick(a, maze, NodeState(a)) : TickStep(a, t)
    /\ UNCHANGED sim_vars

NextApart == \E a \in Agents : ApartTick(a) \/ Deliver(a)

InitApart ==
    /\ maze = Apart
    /\ local_map         = [a \in Agents |-> InitialNode(ApartStarts[a]).local_map]
    /\ frontiers         = [a \in Agents |-> InitialNode(ApartStarts[a]).frontiers]
    /\ target_frontier   = [a \in Agents |-> InitialNode(ApartStarts[a]).target_frontier]
    /\ claimed_frontiers = [a \in Agents |-> InitialNode(ApartStarts[a]).claimed_frontiers]
    /\ current_position  = [a \in Agents |-> InitialNode(ApartStarts[a]).current_position]
    /\ stuck_counter     = [a \in Agents |-> InitialNode(ApartStarts[a]).stuck_counter]
    /\ net = [a \in Agents |-> {}]
    /\ tick_count = 0
    /\ last = [op |-> "init", agent |-> 0, before |-> None, phases |-> None]
    /\ round = 1
    /\ turn = {}
    /\ messages = <<>>
    /\ round_claims = {}
    /\ prev_claims = {}
    /\ NoDriver

SpecApart == InitApart /\ [][NextApart]_vars

\* ================================================================= claims
Keys(a) == DOMAIN local_map[a]

\* The cells of agent a that are both a Local Map key and a frontier.
Zombies(a) == Range(frontiers[a]) \cap Keys(a)

\* The claim announcements sent so far, as <<sender, frontier>>.
Announcements ==
    {<<m.sender_id, m.target_frontier>> :
        m \in {x \in UNION {net[p] : p \in Agents} : x.type = "CLAIM"}}

Claimants(f) == {q[1] : q \in {x \in Announcements : x[2] = f}}

Lowest(S) == CHOOSE x \in S : \A y \in S : x <= y

Holders(f) == {a \in Agents : target_frontier[a] = f}

\* YIELD-CHECK applies to node a in state s: its target is recorded for a
\* lower identifier.
OwnedByLower(a, s) ==
    /\ s.target_frontier # None
    /\ s.target_frontier \in DOMAIN s.claimed_frontiers
    /\ s.claimed_frontiers[s.target_frontier] < a

ClaimsIn(sent) == {i \in 1..Len(sent) : sent[i].type = "CLAIM"}

\* C1: applying a claim-announce for F from S leaves the receiver's entry
\* for F at S when there was none, at the lower of the recorded owner and S
\* otherwise, and every other entry as it was.
C1_AnnounceKeepsLowest ==
    \A a \in Agents : \A m \in net[a] :
        m.type = "CLAIM" =>
            LET old == claimed_frontiers[a]
                new == Delivered(NodeState(a), m).claimed_frontiers
                F   == m.target_frontier
                S   == m.sender_id
            IN  /\ DOMAIN new = (DOMAIN old) \cup {F}
                /\ new[F] = IF F \in DOMAIN old THEN MinOf(old[F], S) ELSE S
                /\ \A c \in (DOMAIN old) \ {F} : new[c] = old[c]

\* An agent that announced F itself records a lower sender for F: the
\* announcement of that sender has overwritten the agent's own claim.
C1_Witness ==
    \E a \in Agents : \E m \in net[a] :
        /\ m.type = "CLAIM"
        /\ a \in Claimants(m.target_frontier)
        /\ m.sender_id < a
        /\ m.target_frontier \in DOMAIN claimed_frontiers[a]
        /\ claimed_frontiers[a][m.target_frontier] = m.sender_id

\* C2: at the end of a round of the simulation every announcement has been
\* delivered to every agent; every frontier announced by both agent 1 and
\* agent 2 is then recorded for agent 1 by every agent.
C2_ClaimConvergence ==
    (turn = {} /\ messages = <<>>) =>
        \A f \in {q[2] : q \in Announcements} :
            {1, 2} \subseteq Claimants(f) =>
                \A a \in Agents :
                    /\ f \in DOMAIN claimed_frontiers[a]
                    /\ claimed_frontiers[a][f] = 1

\* C3: a Claim Table entry is never removed and its owner only ever changes
\* to a lower identifier.
C3_OwnerOnlyLowers ==
    [][\A a \in Agents : \A f \in DOMAIN claimed_frontiers[a] :
          /\ f \in DOMAIN claimed_frontiers'[a]
          /\ claimed_frontiers'[a][f] <= claimed_frontiers[a][f]]_vars

\* C4 as stated: a tick of an agent whose target, a cell it has not reached,
\* is recorded for a lower identifier ends with an empty target.
C4_YieldLeavesNoTarget ==
    (/\ last.op = "tick"
     /\ OwnedByLower(last.agent, last.before)
     /\ last.before.current_position # last.before.target_frontier) =>
        target_frontier[last.agent] = None

\* C4 amended: such a tick has an empty target after YIELD-CHECK, and ends
\* with a target only if its DECIDE phase selected a frontier anew.
C4_YieldThenReselect ==
    (last.op = "tick" /\ OwnedByLower(last.agent, last.before)) =>
        /\ last.phases.after_yield.target_frontier = None
        /\ target_frontier[last.agent] # None =>
              /\ last.phases.at_decide.target_frontier = None
              /\ last.phases.selected # None

\* A tick that yielded its target and took a new one in DECIDE.
C4_Witness ==
    /\ last.op = "tick"
    /\ OwnedByLower(last.agent, last.before)
    /\ last.before.current_position # last.before.target_frontier
    /\ target_frontier[last.agent] # None

\* C5: agents 1 and 2 announced a claim on F in the same round and the
\* announcements were exchanged; after its tick of the next round agent 1
\* still has F as target unless it has reached F, and agent 2's target is
\* not F.
C5_LowerKeepsHigherLeaves ==
    \A f \in {q[2] : q \in prev_claims} :
        (<<1, f>> \in prev_claims /\ <<2, f>> \in prev_claims) =>
            /\ 1 \in turn => (target_frontier[1] = f \/ f \in Keys(1)
                               \/ current_position[1] = f)
            /\ 2 \in turn => target_frontier[2] # f

\* C6: every announcement for F was delivered before this round began and
\* every agent has ticked in this round; at most one agent has F as target,
\* the lowest claimant of F.
C6_OnlyLowestPursues ==
    turn = Agents =>
        \A f \in {q[2] : q \in Announcements} :
            (\A a \in Agents : <<a, f>> \notin round_claims) =>
                /\ Cardinality(Holders(f)) <= 1
                /\ Holders(f) \subseteq {Lowest(Claimants(f))}

\* C7: when a tick sends a claim-announce for F, the sender's table maps F
\* to itself and F is its target at the call; a tick that reaches DECIDE
\* with a target sends no claim-announce.
C7_LocalFirst ==
    last.op = "tick" =>
        LET t == last.phases
        IN  /\ \A i \in ClaimsIn(t.sent) :
                  LET F == t.sent[i].target_frontier
                  IN  /\ t.sent[i].sender_id = last.agent
                      /\ F \in DOMAIN t.at_send.claimed_frontiers
                      /\ t.at_send.claimed_frontiers[F] = last.agent
                      /\ t.at_send.target_frontier = F
            /\ t.at_decide.target_frontier # None => ClaimsIn(t.sent) = {}

\* A tick that announced a claim on a frontier another agent had announced.
C7_Witness ==
    /\ last.op = "tick"
    /\ \E i \in ClaimsIn(last.phases.sent) :
          Claimants(last.phases.sent[i].target_frontier) = Agents

\* C8: no step removes a cell from an agent's Local Map.
C8_MapMonotonic ==
    [][\A a \in Agents : Keys(a) \subseteq DOMAIN local_map'[a]]_vars

\* An agent's Local Map holds a cell it learnt from a map-update and the
\* cells it visited after that.
C8_Witness ==
    \E a \in Agents :
        /\ current_position[a] \in Keys(a)
        /\ \E c \in Keys(a) : \E m \in net[a] :
              /\ m.type = "MERGE" /\ c \in m.nodes
              /\ c # current_position[a]
              /\ Cardinality(Keys(a)) >= 3

\* C9: right after CLEANUP, and at the end of the tick, no frontier of the
\* ticking agent is a Local Map key.
C9_NoZombiesAfterCleanup ==
    last.op = "tick" =>
        /\ Range(last.phases.after_cleanup.frontiers)
              \cap DOMAIN last.phases.after_cleanup.local_map = {}
        /\ Zombies(last.agent) = {}

\* A tick whose CLEANUP pruned a frontier that had become a Local Map key.
C9_Witness ==
    /\ last.op = "tick"
    /\ Range(last.before.frontiers) \cap DOMAIN last.before.local_map # {}

\* C10 as stated: in every reachable state no cell of an agent is both a
\* Local Map key and a frontier.
C10_NeverZombie == \A a \in Agents : Zombies(a) = {}

\* C10 amended: a cell is both only between the application of a map-update
\* that lists it and the agent's next tick.
C10_ZombieOnlyUntilNextTick ==
    \A a \in Agents : \A c \in Zombies(a) :
        /\ ~(last.op = "tick" /\ last.agent = a)
        /\ \E m \in net[a] :
              m.type = "MERGE" /\ (c \in m.nodes \/ c \in Range(m.frontiers))

\* A map-update has made a frontier of the receiver a Local Map key.
C10_Witness == \E a \in Agents : Zombies(a) # {}

\* ----------------------------------------------------- message application
\* What C13 compares of a node: the Local Map keys, the Frontier Set as a
\* set and the Claim Table.
Outcome(s) ==
    [keys |-> DOMAIN s.local_map, frontiers |-> Range(s.frontiers),
     claimed |-> s.claimed_frontiers]

\* The Local Map and the Frontier Set of node state s.
MapAndFrontiers(s) == <<s.local_map, s.frontiers>>

\* C11: applying a map-update a second time, at once or after any other
\* message, leaves the Local Map and the Frontier Set as they were after the
\* first application (and the other message).
C11_MergeIdempotent ==
    \A m \in MapUpdates :
        LET s1 == Delivered(NodeState(Receiver), m)
        IN  /\ MapAndFrontiers(Delivered(s1, m)) = MapAndFrontiers(s1)
            /\ \A o \in InboxMessages :
                  LET s2 == Delivered(s1, o)
                  IN  MapAndFrontiers(Delivered(s2, m)) = MapAndFrontiers(s2)

\* The receiver has applied map-updates, and a map-update not yet applied
\* would add both a cell and a frontier.
C11_Witness ==
    /\ Cardinality(Keys(Receiver)) >= 2
    /\ frontiers[Receiver] # <<>>
    /\ \E m \in MapUpdates :
          LET s1 == Delivered(NodeState(Receiver), m)
          IN  /\ DOMAIN s1.local_map # Keys(Receiver)
              /\ s1.frontiers # frontiers[Receiver]

\* C12: applying a map-update adds exactly the listed frontiers that are
\* neither in the Frontier Set nor Local Map keys; a listed frontier that is
\* a Local Map key is not added.
C12_MergeSkipsMappedFrontiers ==
    \A a \in Agents : \A m \in net[a] :
        m.type = "MERGE" =>
            LET new == Delivered(NodeState(a), m)
            IN  Range(new.frontiers) =
                    Range(frontiers[a]) \cup (Range(m.frontiers) \ Keys(a))

\* C13: from any state of the receiver, two messages applied in either
\* order, and with either of them applied once more, give the same Local Map
\* keys, the same Frontier Set as a set and the same Claim Table. Holding in
\* every state a sequence of messages leads to, this makes the outcome of a
\* collection of messages independent of order and duplication.
C13_OrderAndDuplicationIndependent ==
    \A m1 \in InboxMessages : \A m2 \in InboxMessages :
        LET s   == NodeState(Receiver)
            s1  == Delivered(s, m1)
            s12 == Delivered(s1, m2)
            s21 == Delivered(Delivered(s, m2), m1)
        IN  /\ Outcome(s12) = Outcome(s21)
            /\ Outcome(Delivered(s12, m1)) = Outcome(s12)
            /\ Outcome(Delivered(Delivered(s1, m1), m2)) = Outcome(s12)

\* The receiver has applied map-updates and records the highest sender for a
\* frontier whose claim-announces from two lower senders may still arrive, in
\* either order.
C13_Witness ==
    /\ Cardinality(Keys(Receiver)) >= 2
    /\ Len(frontiers[Receiver]) >= 2
    /\ \E f \in DOMAIN claimed_frontiers[Receiver] :
          /\ claimed_frontiers[Receiver][f] = 3
          /\ \E m1 \in ClaimAnnounces : \E m2 \in ClaimAnnounces :
                /\ m1.target_frontier = f /\ m2.target_frontier = f
                /\ m1.sender_id < m2.sender_id /\ m2.sender_id < 3

\* ------------------------------------------------------------- path engine
Neighbours(c) == {Plus(c, directions[i]) : i \in 1..Len(directions)}

\* The cells within k hops of cell from, every hop landing on a Local Map
\* key or on the destination.
RECURSIVE Ball(_, _, _, _)
Ball(keys, from, to, k) ==
    IF k = 0 THEN {from}
    ELSE LET b == Ball(keys, from, to, k - 1)
         IN  b \cup {n \in UNION {Neighbours(c) : c \in b} : n \in keys \/ n = to}

\* The length of a shortest such path, or the sentinel when there is none.
ShortestHops(keys, from, to) ==
    LET most == Cardinality(keys) + 1
        ks   == {k \in 0..most : to \in Ball(keys, from, to, k)}
    IN  IF ks = {} THEN Unreachable ELSE CHOOSE k \in ks : \A j \in ks : k <= j

\* |dx| + |dy|
Manhattan(c, d) ==
    (IF c[1] > d[1] THEN c[1] - d[1] ELSE d[1] - c[1])
    + (IF c[2] > d[2] THEN c[2] - d[2] ELSE d[2] - c[2])

\* C14: nextStep returns no-path exactly when the target is the position or
\* no path over Local Map keys (the target as final hop) exists; otherwise it
\* returns a cell 4-adjacent to the position, a key or the target, that is one
\* hop closer to the target; an adjacent target is returned itself.
C14_NextStepIsFirstHop ==
    last.op = "_find_next_step_bfs" =>
        LET keys == Keys(Caller)
            pos  == current_position[Caller]
            tgt  == target_frontier[Caller]
            r    == last.phases
        IN  /\ r = None <=> (tgt = pos \/ ShortestHops(keys, pos, tgt) = Unreachable)
            /\ r # None =>
                  /\ r \in Neighbours(pos)
                  /\ r \in keys \/ r = tgt
                  /\ ShortestHops(keys, r, tgt) = ShortestHops(keys, pos, tgt) - 1
                  /\ _get_bfs_distance(keys, r, tgt)
                        = _get_bfs_distance(keys, pos, tgt) - 1
            /\ tgt \in Neighbours(pos) => r = tgt

\* nextStep returned the first hop of a path of three hops or more.
C14_Witness ==
    /\ last.op = "_find_next_step_bfs"
    /\ last.phases # None
    /\ last.phases # target_frontier[Caller]
    /\ ShortestHops(Keys(Caller), current_position[Caller], target_frontier[Caller]) >= 3
    /\ target_frontier[Caller] \notin Keys(Caller)

\* C15: trueDistance is the length of a shortest path whose hops land on
\* Local Map keys or, as final hop, on the destination; 0 for the position
\* itself; the sentinel exactly when there is no such path.
C15_DistanceIsShortestPath ==
    last.op = "_get_bfs_distance" =>
        LET keys == Keys(Caller)
            pos  == current_position[Caller]
            tgt  == target_frontier[Caller]
        IN  /\ last.phases = ShortestHops(keys, pos, tgt)
            /\ tgt = pos => last.phases = 0
            /\ last.phases = Unreachable <=>
                  \A k \in 0..(Cardinality(keys) + 1) : tgt \notin Ball(keys, pos, tgt, k)

\* trueDistance returned a length above the straight-line distance: the
\* direct way leads over an unmapped cell and the path goes around it.
C15_Witness ==
    /\ last.op = "_get_bfs_distance"
    /\ last.phases < Unreachable
    /\ last.phases > Manhattan(current_position[Caller], target_frontier[Caller])
    /\ target_frontier[Caller] \notin Keys(Caller)

\* ------------------------------------------------------- frontier selection
\* The frontiers of the caller without a Claim Table entry.
Unclaimed ==
    {f \in Range(frontiers[Caller]) : f \notin DOMAIN claimed_frontiers[Caller]}

TrueDistance(f) ==
    _get_bfs_distance(Keys(Caller), current_position[Caller], f)

\* C16: while a frontier without Claim Table entry exists, the selected
\* frontier has no entry and fewer than three other frontiers without entry
\* are strictly nearer.
C16_SelectsNearUnclaimed ==
    (last.op = "_select_best_frontier" /\ Unclaimed # {}) =>
        /\ last.phases \in Unclaimed
        /\ Cardinality({g \in Unclaimed \ {last.phases} :
                           TrueDistance(g) < TrueDistance(last.phases)}) < 3

\* The selection was made among four unclaimed frontiers at four different
\* distances, with a claimed frontier in the Frontier Set as well.
C16_Witness ==
    /\ last.op = "_select_best_frontier"
    /\ Cardinality(Unclaimed) = 4
    /\ \A f \in Unclaimed : \A g \in Unclaimed :
          f # g => TrueDistance(f) # TrueDistance(g)
    /\ last.phases \in Unclaimed
    /\ Cardinality({g \in Unclaimed : TrueDistance(g) < TrueDistance(last.phases)}) = 2

\* C17: with a non-empty Frontier Set whose members all have a Claim Table
\* entry the selection is a member of the Frontier Set; the selection is none
\* exactly when the Frontier Set is empty, and otherwise a member of it.
C17_FallbackSelectsAnyFrontier ==
    last.op = "_select_best_frontier" =>
        /\ (frontiers[Caller] # <<>> /\ Unclaimed = {}) =>
              last.phases \in Range(frontiers[Caller])
        /\ last.phases = None <=> frontiers[Caller] = <<>>
        /\ last.phases # None => last.phases \in Range(frontiers[Caller])

\* The selection returned a frontier recorded for the other agent, every
\* frontier having an entry.
C17_Witness ==
    /\ last.op = "_select_best_frontier"
    /\ Len(frontiers[Caller]) >= 2
    /\ Unclaimed = {}
    /\ last.phases \in DOMAIN claimed_frontiers[Caller]
    /\ claimed_frontiers[Caller][last.phases] # Caller

\* ------------------------------------------------------------------- scan
\* The 4-neighbours of the position of the latest scan that are inside the
\* grid view and open.
OpenNeighbours ==
    {n \in Neighbours(last.before.current_position) :
        InBounds(maze, n) /\ ~_is_wall(CellAt(maze, n))}

\* C18: the scan returns, and appends to the Frontier Set, exactly the open
\* in-bounds 4-neighbours of the position that were neither Local Map keys
\* nor frontiers; the frontiers it found stay, in their order.
C18_ScanAddsExactlyNewOpenNeighbours ==
    last.op = "_scan_neighbors" =>
        LET old   == last.before.frontiers
            fresh == {n \in OpenNeighbours :
                         n \notin DOMAIN last.before.local_map /\ n \notin Range(old)}
        IN  /\ Range(last.phases) = fresh
            /\ Len(last.phases) = Cardinality(fresh)
            /\ frontiers[Caller] = old \o last.phases
            /\ \A f \in Range(frontiers[Caller]) \ Range(old) :
                  InBounds(maze, f) /\ ~_is_wall(CellAt(maze, f))

\* A scan next to a wall, a mapped cell and a known frontier that found a new
\* frontier.
C18_Witness ==
    /\ last.op = "_scan_neighbors"
    /\ last.phases # <<>>
    /\ last.before.frontiers # <<>>
    /\ \E n \in Neighbours(last.before.current_position) :
          InBounds(maze, n) /\ _is_wall(CellAt(maze, n))
    /\ \E n \in OpenNeighbours : n \in DOMAIN last.before.local_map
    /\ \E n \in OpenNeighbours : n \in Range(last.before.frontiers)

\* C19: after a scan at p every open in-bounds 4-neighbour of p that is a
\* Local Map key is in the adjacency set of p, and p is in its adjacency set.
C19_ScanRecordsEdges ==
    last.op = "_scan_neighbors" =>
        LET p == last.before.current_position
        IN  \A n \in OpenNeighbours :
                n \in DOMAIN last.before.local_map =>
                    /\ n \in local_map[Caller][p]
                    /\ p \in local_map[Caller][n]

\* ---------------------------------------------------------------- broadcast
\* The map-updates among the payloads sent.
MergesIn(sent) == {i \in 1..Len(sent) : sent[i].type = "MERGE"}

\* C20: a tick whose SCAN found no new cell and no new frontier sends no
\* map-update, and a map-update sent by a tick lists only frontiers its SCAN
\* returned and cells that became Local Map keys in that tick (the cell the
\* agent stands on counted among them).
C20_MapUpdateListsOnlyNews ==
    last.op = "tick" =>
        LET t         == last.phases
            new_cells == DOMAIN t.after_scan.local_map \ DOMAIN last.before.local_map
        IN  /\ (new_cells = {} /\ t.new_frontiers = <<>>) => MergesIn(t.sent) = {}
            /\ \A i \in MergesIn(t.sent) :
                  /\ t.sent[i].nodes \subseteq
                        new_cells \cup {last.before.current_position}
                  /\ Range(t.sent[i].frontiers) \subseteq Range(t.new_frontiers)

\* -------------------------------------------------------------------- move
\* C21: a tick whose MOVE phase computed the target cell as its step ends
\* with an empty target.
C21_StepOntoTargetClearsIt ==
    (/\ last.op = "tick"
     /\ last.phases.next_step # None
     /\ last.phases.next_step = last.phases.at_move.target_frontier) =>
        target_frontier[last.agent] = None

\* The MOVE phase of the latest tick ran and found no path to the target.
MoveFailed ==
    /\ last.op = "tick"
    /\ last.phases.at_move.target_frontier # None
    /\ last.phases.next_step = None

\* C22: a tick whose path computation fails for the fifth consecutive time,
\* the Frontier Set being non-empty, ends with a target drawn from the
\* Frontier Set and with the stuck counter at zero.
C22_EscapeAtFifthFailure ==
    (/\ MoveFailed
     /\ last.phases.at_move.stuck_counter = 4
     /\ last.phases.at_move.frontiers # <<>>) =>
        /\ target_frontier[last.agent] \in Range(frontiers[last.agent])
        /\ stuck_counter[last.agent] = 0

\* C22 (as the code has it): the escape is taken at the sixth consecutive
\* failure, when the counter would exceed the limit of five: with a non-empty
\* Frontier Set that tick ends with a target drawn from the Frontier Set and
\* the counter at zero; every earlier failure ends without a target and with
\* the counter one higher.
C22_EscapeAtSixthFailure ==
    MoveFailed =>
        IF /\ last.phases.at_move.stuck_counter = StuckLimit
           /\ last.phases.at_move.frontiers # <<>>
        THEN /\ target_frontier[last.agent] \in Range(frontiers[last.agent])
             /\ stuck_counter[last.agent] = 0
        ELSE /\ target_frontier[last.agent] = None
             /\ stuck_counter[last.agent] = last.phases.at_move.stuck_counter + 1

C22_Witness ==
    /\ MoveFailed
    /\ last.phases.at_move.stuck_counter = StuckLimit
    /\ target_frontier[last.agent] \in Range(frontiers[last.agent])
    /\ stuck_counter[last.agent] = 0

\* The four fields MOVE must not touch when it finds no path.
Surroundings(s) ==
    <<s.current_position, s.local_map, s.frontiers, s.claimed_frontiers>>

\* C23: a MOVE phase that finds no path leaves position, Local Map, Frontier
\* Set and Claim Table as they were before MOVE, drops the target and raises
\* the stuck counter by exactly one, unless the escape fires; a MOVE phase
\* that finds a step takes it and puts the stuck counter back to zero.
C23_UnreachableTargetIsDropped ==
    (last.op = "tick" /\ last.phases.at_move.target_frontier # None) =>
        IF last.phases.next_step = None
        THEN /\ Surroundings(NodeState(last.agent)) = Surroundings(last.phases.at_move)
             /\ \/ /\ target_frontier[last.agent] = None
                   /\ stuck_counter[last.agent] = last.phases.at_move.stuck_counter + 1
                \/ /\ last.phases.at_move.stuck_counter + 1 > StuckLimit
                   /\ last.phases.at_move.frontiers # <<>>
        ELSE /\ stuck_counter[last.agent] = 0
             /\ current_position[last.agent] = last.phases.next_step

C23_Witness ==
    /\ MoveFailed
    /\ last.phases.at_move.stuck_counter = 2
    /\ stuck_counter[last.agent] = 3
    /\ target_frontier[last.agent] = None

C23_WitnessStep ==
    /\ last.op = "tick"
    /\ last.phases.next_step # None
    /\ last.phases.at_move.stuck_counter > 0
    /\ stuck_counter[last.agent] = 0

\* The text decodes to an object whose type member is MERGE or CLAIM.
IsSwarmMessage(msg) ==
    /\ msg.parses
    /\ msg.value.kind = "object"
    /\ \/ HasType(msg.value.fields, "MERGE")
       \/ HasType(msg.value.fields, "CLAIM")

\* C24: process_message, given a text that fails to parse or decodes to
\* anything other than a MERGE or CLAIM message (an unknown type, or a JSON
\* value that is not an object), returns without raising and leaves the six
\* fields of the node as they were.
C24_OtherMessagesAreDropped ==
    (last.op = "process_message" /\ ~IsSwarmMessage(last.phases.msg)) =>
        /\ last.phases.raised = NoError
        /\ NodeState(last.agent) = last.before

C25_FirstTickOfLoneAgent ==
    (last.op = "tick" /\ tick_count = 1) =>
        /\ Range(frontiers[last.agent]) = OpenNeighbours
        /\ Len(frontiers[last.agent]) = Cardinality(OpenNeighbours)
        /\ DOMAIN local_map[last.agent] = {last.before.current_position}
        /\ OpenNeighbours # {} => target_frontier[last.agent] \in OpenNeighbours

C25_Witness ==
    /\ last.op = "tick"
    /\ tick_count = 1
    /\ last.before = InitialNode(<<1, 1>>)
    /\ Cardinality(OpenNeighbours) = 3
    /\ target_frontier[last.agent] \in OpenNeighbours

\* C28: a tick of an agent leaves the six fields of every other agent as they
\* were, and the fields of an agent change only in a step that is a tick of
\* that agent or the application of a datagram delivered to it.
C28_AgentIsolation ==
    [][/\ tick_count' = tick_count + 1 =>
            \A b \in Agents \ {last'.agent} : NodeState(b)' = NodeState(b)
       /\ \A b \in Agents :
            NodeState(b)' # NodeState(b) =>
                \/ tick_count' = tick_count + 1 /\ last'.op = "tick" /\ last'.agent = b
                \/ /\ tick_count' = tick_count
                   /\ last'.op = "deliver"
                   /\ \E m \in net[b] : NodeState(b)' = Delivered(NodeState(b), m)]_vars

C28_Witness ==
    /\ last.op = "tick"
    /\ last.agent = 1
    /\ NodeState(1) # last.before
    /\ target_frontier[2] # None
    /\ claimed_frontiers[2] # <<>>

\* C30: a target held when the MOVE phase of a tick begins is not a Local Map
\* key, also when a map-update of a peer mapped the cell after it was chosen.
C30_TargetAtMoveIsUnmapped ==
    (last.op = "tick" /\ last.phases.at_move.target_frontier # None) =>
        last.phases.at_move.target_frontier \notin DOMAIN last.phases.at_move.local_map

\* C26 (as stated): the driver stops as soon as the position of some agent is
\* the goal cell: no agent ticks while an agent stands on the goal.
C26_NoTickWhileOnGoal ==
    [][(\E a \in Agents : current_position[a] = goal_cell) =>
            tick_count' = tick_count]_vars

\* The steps the driver can still take: one per agent left in the round, and
\* one test of the loop condition and one tick per agent for every round left.
StepsLeft ==
    IF pc.at = "done" THEN 0
    ELSE (MaxExploreTicks - round) * (Cardinality(Agents) + 1) + 1
         + (IF pc.at = "for" THEN Cardinality(Agents \ turn) ELSE 0)

\* C26 (as the code has it): the driver terminates after at most max_ticks
\* rounds: every step of it lowers the number of steps left and a step is
\* possible until it is done; it tests the agent that has just ticked, so it
\* stops as soon as a tick ends on the goal cell and no agent ticks after that.
C26_ExploreTerminates ==
    /\ [](round <= MaxExploreTicks /\ StepsLeft \in Nat)
    /\ [][StepsLeft' < StepsLeft]_vars
    /\ [](pc.at = "for" =>
            \E a \in Agents \ turn :
                tick(a, get_local_grid_view(maze, current_position[a]), NodeState(a)) # {})
    /\ [](pc.at \in {"while", "for", "done"})
    /\ [][goal_reached => tick_count' = tick_count]_vars
    /\ [][(tick_count' = tick_count + 1 /\ current_position'[last'.agent] = goal_cell)
            => goal_reached']_vars

C26_Witness ==
    /\ pc.at = "done"
    /\ goal_reached
    /\ round = 2
    /\ turn = {1}
    /\ current_position[1] = goal_cell

\* C27: in the live simulation no process_message of an agent runs between the
\* start and the end of a tick of that agent: while a tick is under way, the
\* latest step on the fields is the start of that tick and the fields of the
\* ticking agent are as the tick wrote them, also when a datagram for it has
\* arrived meanwhile; and no step other than the end of the tick touches them.
C27_TickAndHandlerDoNotInterleave ==
    /\ [](pc.at = "tick" =>
            /\ last.op = "tick_begin"
            /\ last.agent = pc.agent
            /\ NodeState(pc.agent) = pc.outcome.after_scan)
    /\ [][pc.at = "tick" =>
            \/ pc'.at = "await" /\ last'.op = "tick"
            \/ UNCHANGED <<node_vars, pc, last>>]_vars
    /\ [][last'.op = "web_listen" => pc.at = "await" /\ pc' = pc]_vars

C27_Witness ==
    /\ pc.at = "tick"
    /\ received[pc.agent] # None
    /\ Delivered(NodeState(pc.agent), received[pc.agent]) # NodeState(pc.agent)

\* C31: a tick moves the agent by at most one step: its position afterwards
\* is the position before or a 4-neighbour of it, and a cell it stepped onto
\* was a Local Map key or the target when MOVE began.
C31_OneStepOntoKnownCell ==
    last.op = "tick" =>
        LET old == last.before.current_position
            new == current_position[last.agent]
        IN  /\ new = old \/ new \in Neighbours(old)
            /\ new # old =>
                  \/ new \in DOMAIN last.phases.at_move.local_map
                  \/ new = last.phases.at_move.target_frontier

C31_Witness ==
    /\ last.op = "tick"
    /\ current_position[last.agent] \in Neighbours(last.before.current_position)
    /\ current_position[last.agent] \in DOMAIN last.phases.at_move.local_map
    /\ current_position[last.agent] # last.phases.at_move.target_frontier

\* Position, target and stuck counter of a node.
Pursuit(s) == <<s.current_position, s.target_frontier, s.stuck_counter>>

\* C32: applying a map-update changes only the Local Map key set and the
\* Frontier Set, applying a claim-announce changes only the Claim Table;
\* neither changes position, target, stuck counter or the adjacency set of a
\* Local Map key there was.
C32_HandlersTouchOnlyTheirFields ==
    \A a \in Agents : \A m \in net[a] :
        LET s == NodeState(a)
            r == Delivered(s, m)
        IN  /\ Pursuit(r) = Pursuit(s)
            /\ \A k \in DOMAIN s.local_map :
                  k \in DOMAIN r.local_map /\ r.local_map[k] = s.local_map[k]
            /\ m.type = "MERGE" => r.claimed_frontiers = s.claimed_frontiers
            /\ m.type = "CLAIM" => r.local_map = s.local_map /\ r.frontiers = s.frontiers

C32_Witness ==
    \E a \in Agents : \E m, c \in net[a] :
        /\ m.type = "MERGE"
        /\ c.type = "CLAIM"
        /\ target_frontier[a] \in m.nodes
        /\ DOMAIN Delivered(NodeState(a), m).local_map # DOMAIN local_map[a]
        /\ Delivered(NodeState(a), m).frontiers # frontiers[a]
        /\ Delivered(NodeState(a), c).claimed_frontiers # claimed_frontiers[a]

\* C33: in simulate_swarm_exploration the scan of a tick puts every open,
\* in-bounds, unmapped 4-neighbour (in maze coordinates) of the position in
\* the Frontier Set, and never adds a cell that is a wall of the maze.
C33_ViewShowsTheNeighbours ==
    last.op = "tick" =>
        LET s == last.phases.after_yield
        IN  /\ \A c \in Neighbours(s.current_position) :
                  (/\ InBounds(maze, c)
                   /\ ~_is_wall(CellAt(maze, c))
                   /\ c \notin DOMAIN s.local_map) =>
                      c \in Range(last.phases.after_scan.frontiers)
            /\ \A c \in Range(last.phases.new_frontiers) :
                  InBounds(maze, c) /\ ~_is_wall(CellAt(maze, c))

\* The open cells of the maze that can be walked to from cell c.
RECURSIVE Flood(_)
Flood(S) ==
    LET more == {n \in OpenIn(maze) : \E c \in S : n \in Neighbours(c)} \ S
    IN  IF more = {} THEN S ELSE Flood(S \cup more)

Reachable == Flood({current_position[Caller]})

\* Every reachable open cell is a Local Map key and the Frontier Set is empty.
Explored ==
    /\ DOMAIN local_map[Caller] = Reachable
    /\ frontiers[Caller] = <<>>

\* How far node s is from having explored everything: the reachable cells it
\* has not stood on, those of them it has not chosen yet, the steps to its
\* target, and the tick that maps the cell it stands on.
Unvisited(s) == Reachable \ (DOMAIN s.local_map \cup {s.current_position})

Remaining(s) ==
    LET w == GridRows(maze) * GridCols(maze) + 1
        d == IF s.target_frontier \in {None, s.current_position} THEN 0
             ELSE _get_bfs_distance(DOMAIN s.local_map \cup {s.current_position},
                                    s.current_position, s.target_frontier)
        e == IF s.current_position \notin DOMAIN s.local_map \/ s.frontiers # <<>>
             THEN 1 ELSE 0
    IN  ((Cardinality(Unvisited(s)) * w
          + Cardinality(Unvisited(s) \ DOMAIN s.claimed_frontiers)) * w + d) * 2 + e

\* C34: a single agent ticked again and again on the full maze ends with
\* every reachable open cell as a Local Map key and an empty Frontier Set,
\* whatever the random selection picks: until then every tick, whichever
\* outcome it has, changes the node and brings it nearer, and it is there
\* when nothing remains.
C34_LoneAgentExploresEverything ==
    /\ Remaining(NodeState(Caller)) \in Nat
    /\ Remaining(NodeState(Caller)) = 0 => Explored
    /\ ~Explored =>
            \A t \in tick(Caller, maze, NodeState(Caller)) : t.state # NodeState(Caller)
    /\ (last.op = "tick" /\ NodeState(Caller) # last.before) =>
            Remaining(NodeState(Caller)) < Remaining(last.before)

C34_Witness ==
    /\ maze = Ring
    /\ Explored
    /\ Cardinality(Reachable) = 8
    /\ last.op = "tick"

\* The cells some agent has stood on: a Local Map key is a position of its
\* holder or of the agent whose MERGE brought it.
Visited == UNION {Keys(a) \cup {current_position[a]} : a \in Agents}

\* Every agent's Frontier Set is empty and every reachable open cell has
\* been visited by some agent.
AllExplored ==
    /\ \A a \in Agents : frontiers[a] = <<>>
    /\ Reachable \subseteq Visited

\* No agent knows a cell it has still to explore.
NothingLeft ==
    /\ \A a \in Agents : Range(frontiers[a]) \subseteq Keys(a)
    /\ Reachable \subseteq Visited

\* Agent a is ticked infinitely often.
TickedForever(a) == []<>(last.op = "tick" /\ last.agent = a)

\* C35: several agents started on the same cell, each ticked infinitely often:
\* eventually every agent's Frontier Set is empty and every open cell
\* reachable from the start has been visited by some agent, and from some
\* point on no agent has an unexplored frontier left, whichever datagrams
\* arrive late, out of order or never.
C35_SwarmExploresEverything ==
    (\A a \in Agents : TickedForever(a)) => (<>AllExplored /\ <>[]NothingLeft)

\* A swarm that has explored everything after an agent dropped a frontier
\* another agent had announced: the agents ended on different cells, and the
\* higher agent's Claim Table still names the lower one.
C35_Witness ==
    /\ AllExplored
    /\ last.op = "tick"
    /\ current_position[1] # current_position[2]
    /\ \E f \in DOMAIN claimed_frontiers[2] : claimed_frontiers[2][f] = 1
    /\ \E f \in DOMAIN claimed_frontiers[2] : claimed_frontiers[2][f] = 2

\* An agent is about to yield: it is on its way to a frontier that its Claim
\* Table gives to a lower agent.
YieldPending ==
    \E a \in Agents :
        /\ target_frontier[a] \notin {None, current_position[a]}
        /\ target_frontier[a] \notin Keys(a)
        /\ target_frontier[a] \in DOMAIN claimed_frontiers[a]
        /\ claimed_frontiers[a][target_frontier[a]] < a

\* C36: in a swarm whose messages all come from its own agents and whose
\* ticks receive the full maze, every agent's position, every Local Map key,
\* every Frontier Set member and every target is an in-bounds cell of the
\* maze that is not a wall, after any sequence of ticks and deliveries.
C36_EveryKnownCellIsOpen ==
    \A a \in Agents :
        /\ current_position[a] \in OpenIn(maze)
        /\ Keys(a) \subseteq OpenIn(maze)
        /\ Range(frontiers[a]) \subseteq OpenIn(maze)
        /\ target_frontier[a] # None => target_frontier[a] \in OpenIn(maze)

\* An agent has just ticked onto the cell beside the wall of the branching
\* maze, with a frontier and a target, while the other agent, still on the
\* start, has that cell from a MERGE.
C36_Witness ==
    /\ maze = Branch
    /\ last.op = "tick"
    /\ current_position[last.agent] = <<0, 1>>
    /\ _is_wall(CellAt(maze, <<1, 1>>))
    /\ frontiers[last.agent] # <<>>
    /\ target_frontier[last.agent] # None
    /\ \E b \in Agents \ {last.agent} :
          /\ current_position[b] = <<0, 0>>
          /\ <<0, 1>> \in Keys(b)

\* C37: when all agents start on the same cell, every target held at MOVE is
\* reachable through the Local Map: the path search always returns a step, no
\* stuck counter ever leaves 0 and the stuck escape never fires, whichever
\* datagrams are lost, repeated or handed over out of order.
C37_TargetsAreAlwaysReachable ==
    /\ \A a \in Agents : stuck_counter[a] = 0
    /\ ~MoveFailed
    /\ last.op = "tick" /\ last.phases.at_move.target_frontier # None =>
           _get_bfs_distance(DOMAIN last.phases.at_move.local_map,
                             last.phases.at_move.current_position,
                             last.phases.at_move.target_frontier) # Unreachable

\* An agent has just stepped toward a target that is not beside the cell it
\* stood on: a frontier a MERGE brought, reached through merged keys.
C37_Witness ==
    /\ last.op = "tick"
    /\ last.phases.at_move.target_frontier # None
    /\ last.phases.at_move.target_frontier
           \notin Neighbours(last.before.current_position) \cup {last.before.current_position}
    /\ last.phases.next_step # None
    /\ \E k \in DOMAIN last.phases.at_move.local_map :
           k \notin {last.before.current_position} \cup Neighbours(last.before.current_position)

\* C38: between ticks, also after a message has been applied, an agent's
\* position is a Local Map key or equals its target; right after CLEANUP the
\* position is a Local Map key.
C38_PositionIsMappedOrTargeted ==
    /\ \A a \in Agents :
           \/ current_position[a] \in Keys(a)
           \/ current_position[a] = target_frontier[a]
    /\ last.op = "tick" =>
           last.phases.after_cleanup.current_position
               \in DOMAIN last.phases.after_cleanup.local_map

\* An agent stands on its target, which is not yet a Local Map key, and a
\* message has been applied since it stepped there.
C38_Witness ==
    /\ last.op = "deliver"
    /\ \E a \in Agents :
          /\ current_position[a] \notin Keys(a)
          /\ current_position[a] = target_frontier[a]
          /\ DOMAIN claimed_frontiers[a] # {}
          /\ \E f \in DOMAIN claimed_frontiers[a] : claimed_frontiers[a][f] # a

\* C39: for any placement of the agents, an agent whose target is set at the
\* end of a tick has an entry for that target in its own Claim Table.
C39_EveryTargetIsClaimed ==
    last.op = "tick" =>
        (target_frontier[last.agent] # None =>
             target_frontier[last.agent] \in DOMAIN claimed_frontiers[last.agent])

\* The latest tick cleared the agent's target in its ANTI-LIVELOCK phase.
Yielded ==
    /\ last.op = "tick"
    /\ last.phases.after_cleanup.target_frontier # None
    /\ last.phases.after_yield.target_frontier = None

\* C40: the agent with the lowest identifier never clears its target in the
\* ANTI-LIVELOCK phase, and an agent that clears it there has a Claim Table
\* entry for that target with a strictly lower identifier, after any ticks
\* and deliveries of the swarm's own messages.
C40_OnlyYieldToLowerIdentifier ==
    /\ last.op = "tick" =>
           \/ last.phases.after_yield.target_frontier
                  = last.phases.after_cleanup.target_frontier
           \/ Yielded
    /\ Yielded =>
           LET c == last.phases.after_cleanup
           IN  /\ last.agent # Lowest(Agents)
               /\ c.target_frontier \in DOMAIN c.claimed_frontiers
               /\ c.claimed_frontiers[c.target_frontier] < last.agent

\* A higher agent has just yielded a frontier that the lowest agent is
\* heading for, and the lowest agent has been sent the higher one's CLAIM
\* for it.
C40_Witness ==
    /\ Yielded
    /\ last.agent # Lowest(Agents)
    /\ target_frontier[Lowest(Agents)] = last.phases.after_cleanup.target_frontier
    /\ \E m \in net[Lowest(Agents)] :
          /\ m.type = "CLAIM"
          /\ m.sender_id = last.agent
          /\ m.target_frontier = target_frontier[Lowest(Agents)]
====
